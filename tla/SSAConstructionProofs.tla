----------------------- MODULE SSAConstructionProofs -----------------------
(***************************************************************************)
(* Theorems about SSAConstruction, for every set of functions and names:   *)
(* first of PHI insertion and of what the map of versions holds, then of   *)
(* the walk.                                                               *)
(***************************************************************************)
EXTENDS SSAConstruction, TLAPS

-----------------------------------------------------------------------------
(* Sequences                                                               *)

LEMMA SeqOfOne == ASSUME NEW S, NEW x \in S PROVE <<x>> \in Seq(S)
OBVIOUS

LEMMA SeqOfTwo == ASSUME NEW S, NEW x \in S, NEW y \in S PROVE <<x, y>> \in Seq(S)
OBVIOUS

LEMMA SeqMonotone ==
  ASSUME NEW S, NEW T, S \subseteq T, NEW s \in Seq(S)
  PROVE  s \in Seq(T)
OBVIOUS

LEMMA SeqRest ==
  ASSUME NEW S, NEW s \in Seq(S), s # <<>>
  PROVE  Head(s) \in S /\ Tail(s) \in Seq(S)
OBVIOUS

-----------------------------------------------------------------------------
(* The functions                                                           *)

LEMMA CodePositionFacts ==
  ASSUME NEW p \in Programs, NEW x \in CodePositions(p)
  PROVE  /\ x = <<x[1], x[2]>>
         /\ x[1] \in p.blocks
         /\ x[2] \in 1 .. Len(p.code[x[1]])
         /\ Instr(p, x) \in Instructions
<1>1. p.code \in [p.blocks -> Seq(Instructions)]
  BY ProgramsAssumption DEF WellFormed
<1>2. PICK b \in p.blocks : x \in {b} \X DOMAIN p.code[b]
  BY DEF CodePositions
<1>3. p.code[b] \in Seq(Instructions) /\ DOMAIN p.code[b] = 1 .. Len(p.code[b])
  BY <1>1
<1> QED
  BY <1>2, <1>3 DEF Instr

LEMMA CodePositionIntro ==
  ASSUME NEW p \in Programs, NEW b \in p.blocks, NEW i \in 1 .. Len(p.code[b])
  PROVE  <<b, i>> \in CodePositions(p)
<1>1. p.code[b] \in Seq(Instructions)
  BY ProgramsAssumption DEF WellFormed
<1>2. <<b, i>> \in {b} \X DOMAIN p.code[b]
  BY <1>1
<1> QED
  BY <1>2 DEF CodePositions

LEMMA CodeLength ==
  ASSUME NEW p \in Programs, NEW b \in p.blocks
  PROVE  Len(p.code[b]) \in Nat
BY ProgramsAssumption DEF WellFormed

(* A name's definition comes before the terminator of its block.           *)
LEMMA DefPositionFacts ==
  ASSUME NEW p \in Programs, NEW n \in DefinedNames(p)
  PROVE  /\ n \in Names
         /\ DefPosition(p, n) \in DefPositions(p, n)
         /\ DefPosition(p, n) \in p.blocks \X Int
         /\ DefPosition(p, n)[2] <= Len(p.code[DefPosition(p, n)[1]])
<1> DEFINE x == DefPosition(p, n)
<1>1. x \in DefPositions(p, n) /\ n \in Names
  BY DEF DefPosition, DefinedNames
<1>2. CASE x \in CodePositions(p)
  BY <1>1, <1>2, CodePositionFacts
<1>3. CASE x = <<p.entry, -1>>
  <2>1. p.entry \in p.blocks
    BY ProgramsAssumption DEF WellFormed
  <2>2. Len(p.code[p.entry]) \in Nat
    BY <2>1, CodeLength
  <2> QED
    BY <1>1, <1>3, <2>1, <2>2
<1>4. CASE \E b \in p.blocks : x = <<b, 0>>
  <2>1. PICK b \in p.blocks : x = <<b, 0>>
    BY <1>4
  <2>2. Len(p.code[b]) \in Nat
    BY CodeLength
  <2> QED
    BY <1>1, <2>1, <2>2
<1> QED
  BY <1>1, <1>2, <1>3, <1>4 DEF DefPositions

LEMMA NameValueFacts ==
  ASSUME NEW p \in Programs, NEW n \in DefinedNames(p)
  PROVE  /\ NameValue(p, n) \in Values
         /\ NameValue(p, n).kind = "name"
         /\ NameValue(p, n).of = n
         /\ NameValue(p, n).at = DefPosition(p, n)
<1>1. DefPosition(p, n) \in Positions
  BY DefPositionFacts DEF Positions, Blocks
<1> QED
  BY <1>1, DefPositionFacts DEF NameValue, Values

LEMMA ArgumentFacts ==
  ASSUME NEW p \in Programs, NEW a \in p.args
  PROVE  /\ a \in DefinedNames(p)
         /\ DefPosition(p, a) = <<p.entry, -1>>
<1>1. <<p.entry, -1>> \in DefPositions(p, a)
  BY DEF DefPositions
<1>2. a \in DefinedNames(p)
  BY <1>1, ProgramsAssumption DEF DefinedNames, WellFormed
<1> QED
  BY <1>1, <1>2, DefPositionFacts, ProgramsAssumption DEF InSSAForm

(* A name the pass puts in a PHI of f, as a dummy, is available at the end *)
(* of each predecessor of f.                                               *)
LEMMA DummiesAreDominated ==
  ASSUME NEW p \in Programs, NEW n \in DefinedNames(p), NEW b \in p.blocks,
         n \in p.args \/ <<DefPosition(p, n)[1], b>> \in p.dom
  PROVE  Dominates(p, DefPosition(p, n), Terminator(p, b))
<1>1. CASE n \in p.args
  <2>1. DefPosition(p, n) = <<p.entry, -1>>
    BY <1>1, ArgumentFacts
  <2>2. <<p.entry, b>> \in p.dom
    BY ProgramsAssumption DEF WellFormed, AnalysisIsSound, DominatorPairs, BlockDominates
  <2> QED
    BY <2>1, <2>2, CodeLength DEF Dominates, Terminator
<1>2. CASE <<DefPosition(p, n)[1], b>> \in p.dom
  BY <1>2, DefPositionFacts, CodeLength DEF Dominates, Terminator
<1> QED
  BY <1>1, <1>2

-----------------------------------------------------------------------------
(* The control-flow graph                                                  *)

LEMMA GraphFacts ==
  ASSUME NEW p \in Programs
  PROVE  /\ p.entry \in p.blocks
         /\ p.succ \in [p.blocks -> Seq(p.blocks \ {p.entry})]
         /\ AllReachable(p)
         /\ AnalysisIsSound(p)
BY ProgramsAssumption DEF WellFormed

LEMMA SuccessorFacts ==
  ASSUME NEW p \in Programs, NEW b \in p.blocks
  PROVE  /\ p.succ[b] \in Seq(p.blocks)
         /\ DOMAIN p.succ[b] = 1 .. Len(p.succ[b])
         /\ SuccSet(p, b) \subseteq p.blocks \ {p.entry}
<1>1. p.succ[b] \in Seq(p.blocks \ {p.entry})
  BY GraphFacts
<1> QED
  BY <1>1 DEF SuccSet

LEMMA DominanceFacts ==
  ASSUME NEW p \in Programs, NEW d \in p.blocks, NEW b \in p.blocks
  PROVE  <<d, b>> \in p.dom <=> d = b \/ d = p.entry \/ b \notin ReachableAvoiding(p, d)
<1>1. p.dom = {x \in p.blocks \X p.blocks : BlockDominates(p, x[1], x[2])}
  BY GraphFacts DEF AnalysisIsSound, DominatorPairs
<1>2. <<d, b>> \in p.dom <=> BlockDominates(p, d, b)
  BY <1>1
<1> QED
  BY <1>2 DEF BlockDominates

LEMMA EdgeFacts ==
  ASSUME NEW p \in Programs, NEW b \in p.blocks, NEW e \in EdgesInto(p, b)
  PROVE  /\ e = <<e[1], e[2]>>
         /\ e[1] \in Preds(p, b)
         /\ e \in Blocks \X Nat
         /\ e # Absent
<1>1. PICK q \in p.blocks : e \in {q} \X DOMAIN p.succ[q]
  BY DEF EdgesInto, Edges
<1>3. e[1] = q /\ e[2] \in 1 .. Len(p.succ[q]) /\ e = <<e[1], e[2]>>
  BY <1>1, SuccessorFacts
<1>4. p.succ[e[1]][e[2]] = b
  BY DEF EdgesInto
<1>5. e[1] \in Preds(p, b)
  BY <1>3, <1>4, SuccessorFacts DEF Preds, SuccSet
<1>6. q \in Blocks
  BY DEF Blocks
<1> QED
  BY <1>3, <1>5, <1>6, NamesAssumption

(* A block other than the entry is entered from a block it does not        *)
(* dominate: otherwise control would never reach it.                       *)
LEMMA EnteredFromOutside ==
  ASSUME NEW p \in Programs, NEW f \in p.blocks, f # p.entry
  PROVE  \E q \in Preds(p, f) : <<f, q>> \notin p.dom
<1> SUFFICES ASSUME \A q \in Preds(p, f) : <<f, q>> \in p.dom
             PROVE  FALSE
  OBVIOUS
<1> DEFINE S == {b \in p.blocks : <<f, b>> \notin p.dom}
<1>1. p.entry \in p.blocks
  BY GraphFacts
<1>2. p.entry \in S
  <2>1. p.entry \in ReachableAvoiding(p, f)
    BY <1>1 DEF ReachableAvoiding
  <2> QED
    BY <1>1, <2>1, DominanceFacts
<1>3. ASSUME NEW b \in S, NEW c \in SuccSet(p, b)
      PROVE  c \in S
  <2>1. c \in p.blocks
    BY SuccessorFacts
  <2>2. c # f
    BY <2>1 DEF Preds
  <2>3. b \in ReachableAvoiding(p, f)
    BY DominanceFacts
  <2>4. c \in ReachableAvoiding(p, f)
    BY <2>1, <2>2, <2>3 DEF ReachableAvoiding
  <2> QED
    BY <2>1, <2>2, <2>4, DominanceFacts
<1>4. S = p.blocks
  BY <1>2, <1>3, GraphFacts DEF AllReachable
<1>5. <<f, f>> \in p.dom
  BY DominanceFacts
<1> QED
  BY <1>4, <1>5

(* No PHI is inserted in a block for a name that a PHI of the source       *)
(* defines in that block.                                                  *)
LEMMA InsertedPhisAreNew ==
  ASSUME NEW p \in Programs, NEW f \in p.blocks, NEW n \in DefinedNames(p),
         Preds(p, f) # {},
         n \in p.args \/ \A q \in Preds(p, f) : <<DefPosition(p, n)[1], q>> \in p.dom
  PROVE  <<f, n>> \notin SourcePhis(p)
<1> SUFFICES ASSUME <<f, n>> \in SourcePhis(p)
             PROVE  FALSE
  OBVIOUS
<1>1. <<f, 0>> \in DefPositions(p, n)
  BY DEF DefPositions
<1>2. DefPosition(p, n) = <<f, 0>>
  BY <1>1, DefPositionFacts, ProgramsAssumption DEF InSSAForm
<1>3. n \notin p.args
  BY <1>2, ArgumentFacts
<1>4. f # p.entry
  BY SuccessorFacts DEF Preds
<1>5. \A q \in Preds(p, f) : <<f, q>> \in p.dom
  BY <1>2, <1>3
<1> QED
  BY <1>4, <1>5, EnteredFromOutside

-----------------------------------------------------------------------------
(* Dominance is a strict order of the program points                       *)

LEMMA ReachableClosed ==
  ASSUME NEW p \in Programs, NEW d \in p.blocks, d # p.entry
  PROVE  /\ ReachableAvoiding(p, d) \subseteq p.blocks \ {d}
         /\ p.entry \in ReachableAvoiding(p, d)
         /\ \A b \in ReachableAvoiding(p, d) :
              SuccSet(p, b) \ {d} \subseteq ReachableAvoiding(p, d)
<1> DEFINE Rest == p.blocks \ {d}
           Closed(S) == \A q \in S : SuccSet(p, q) \ {d} \subseteq S
<1>1. ReachableAvoiding(p, d)
        = {b \in Rest : \A S \in SUBSET Rest : p.entry \in S /\ Closed(S) => b \in S}
  BY DEF ReachableAvoiding
<1>2. p.entry \in Rest
  BY GraphFacts
<1>3. ASSUME NEW b \in ReachableAvoiding(p, d), NEW c \in SuccSet(p, b) \ {d}
      PROVE  c \in ReachableAvoiding(p, d)
  <2>1. b \in p.blocks
    BY <1>1
  <2>2. c \in Rest
    BY <2>1, SuccessorFacts
  <2>3. ASSUME NEW S \in SUBSET Rest, p.entry \in S, Closed(S)
        PROVE  c \in S
    BY <1>1, <2>3
  <2> QED
    BY <1>1, <2>2, <2>3
<1> QED
  BY <1>1, <1>2, <1>3

LEMMA ReachableLeast ==
  ASSUME NEW p \in Programs, NEW d \in p.blocks, d # p.entry,
         NEW S \in SUBSET (p.blocks \ {d}), p.entry \in S,
         \A q \in S : SuccSet(p, q) \ {d} \subseteq S
  PROVE  ReachableAvoiding(p, d) \subseteq S
BY DEF ReachableAvoiding

LEMMA DominanceAntisymmetric ==
  ASSUME NEW p \in Programs, NEW a \in p.blocks, NEW b \in p.blocks, a # b,
         <<a, b>> \in p.dom, <<b, a>> \in p.dom
  PROVE  FALSE
<1>1. a # p.entry /\ b # p.entry
  <2>1. ASSUME NEW c \in p.blocks, c # p.entry
        PROVE  <<c, p.entry>> \notin p.dom
    BY <2>1, DominanceFacts, ReachableClosed, GraphFacts
  <2> QED
    BY <2>1
<1>2. a \notin ReachableAvoiding(p, b) /\ b \notin ReachableAvoiding(p, a)
  BY <1>1, DominanceFacts
<1> DEFINE S == ReachableAvoiding(p, a) \cap ReachableAvoiding(p, b)
<1>3. /\ S \subseteq p.blocks
      /\ p.entry \in S
      /\ a \notin S
  BY <1>1, ReachableClosed
<1>4. \A q \in S : SuccSet(p, q) \subseteq S
  BY <1>1, <1>2, ReachableClosed
<1> QED
  BY <1>3, <1>4, GraphFacts DEF AllReachable

LEMMA DominanceTransitive ==
  ASSUME NEW p \in Programs, NEW a \in p.blocks, NEW b \in p.blocks, NEW c \in p.blocks,
         <<a, b>> \in p.dom, <<b, c>> \in p.dom
  PROVE  <<a, c>> \in p.dom
<1> SUFFICES ASSUME <<a, c>> \notin p.dom
             PROVE  FALSE
  OBVIOUS
<1>1. a # p.entry /\ c \in ReachableAvoiding(p, a) /\ a # b /\ b # c
  BY DominanceFacts
<1>2. b \notin ReachableAvoiding(p, a)
  BY <1>1, DominanceFacts
<1>3. b # p.entry
  BY <1>1, <1>2, ReachableClosed
<1>4. c \notin ReachableAvoiding(p, b)
  BY <1>1, <1>3, DominanceFacts
<1> DEFINE S == ReachableAvoiding(p, a) \cap ReachableAvoiding(p, b)
<1>5. S \in SUBSET (p.blocks \ {a}) /\ p.entry \in S
  BY <1>1, <1>3, ReachableClosed
<1>6. \A q \in S : SuccSet(p, q) \ {a} \subseteq S
  BY <1>1, <1>2, <1>3, ReachableClosed
<1> HIDE DEF S
<1>7. ReachableAvoiding(p, a) \subseteq S
  BY <1>1, <1>5, <1>6, ReachableLeast
<1> QED
  BY <1>1, <1>4, <1>7 DEF S

(* A block is dominated by what dominates each of its predecessors.        *)
LEMMA DominatedFromPreds ==
  ASSUME NEW p \in Programs, NEW d \in p.blocks, NEW f \in p.blocks, f # p.entry,
         \A q \in Preds(p, f) : <<d, q>> \in p.dom
  PROVE  <<d, f>> \in p.dom
<1> SUFFICES ASSUME <<d, f>> \notin p.dom
             PROVE  FALSE
  OBVIOUS
<1>1. d # p.entry /\ d # f /\ f \in ReachableAvoiding(p, d)
  BY DominanceFacts
<1> DEFINE S == ReachableAvoiding(p, d) \ {f}
<1>2. S \in SUBSET (p.blocks \ {d}) /\ p.entry \in S
  BY <1>1, ReachableClosed
<1>3. ASSUME NEW q \in S, NEW c \in SuccSet(p, q) \ {d}
      PROVE  c \in S
  <2>1. q \in p.blocks /\ q # d /\ q \in ReachableAvoiding(p, d)
    BY <1>2
  <2>2. c \in ReachableAvoiding(p, d)
    BY <1>1, <2>1, ReachableClosed
  <2>3. <<d, q>> \notin p.dom
    BY <1>1, <2>1, DominanceFacts
  <2>4. c # f
    BY <2>1, <2>3 DEF Preds
  <2> QED
    BY <2>2, <2>4
<1> HIDE DEF S
<1>4. ReachableAvoiding(p, d) \subseteq S
  BY <1>1, <1>2, <1>3, ReachableLeast
<1> QED
  BY <1>1, <1>4 DEF S

(* What strictly dominates a block dominates its predecessors.             *)
LEMMA DominatesPredecessors ==
  ASSUME NEW p \in Programs, NEW d \in p.blocks, NEW f \in p.blocks, NEW q \in Preds(p, f),
         <<d, f>> \in p.dom, d # f
  PROVE  <<d, q>> \in p.dom
<1>1. q \in p.blocks /\ f \in SuccSet(p, q)
  BY DEF Preds
<1> SUFFICES ASSUME d # p.entry, q \in ReachableAvoiding(p, d)
             PROVE  FALSE
  BY <1>1, DominanceFacts
<1>2. f \in ReachableAvoiding(p, d)
  BY <1>1, ReachableClosed
<1> QED
  BY <1>2, DominanceFacts

(* The same for the program points dominated by definitions.               *)
LEMMA PointsStrict ==
  ASSUME NEW p \in Programs, NEW x \in p.blocks \X Int
  PROVE  ~ Dominates(p, x, x)
BY DEF Dominates

LEMMA PointsTransitive ==
  ASSUME NEW p \in Programs,
         NEW x \in p.blocks \X Int, NEW y \in p.blocks \X Int, NEW z \in p.blocks \X Int,
         Dominates(p, x, y), Dominates(p, y, z)
  PROVE  Dominates(p, x, z)
<1>1. CASE x[1] = y[1] /\ y[1] = z[1]
  BY <1>1 DEF Dominates
<1>2. CASE x[1] # y[1] /\ y[1] = z[1]
  BY <1>2 DEF Dominates
<1>3. CASE x[1] = y[1] /\ y[1] # z[1]
  BY <1>3 DEF Dominates
<1>4. CASE x[1] # y[1] /\ y[1] # z[1]
  <2>1. <<x[1], y[1]>> \in p.dom /\ <<y[1], z[1]>> \in p.dom
    BY <1>4 DEF Dominates
  <2>2. x[1] # z[1]
    BY <1>4, <2>1, DominanceAntisymmetric
  <2>3. <<x[1], z[1]>> \in p.dom
    BY <2>1, DominanceTransitive
  <2> QED
    BY <2>2, <2>3 DEF Dominates
<1> QED
  BY <1>1, <1>2, <1>3, <1>4

-----------------------------------------------------------------------------
(* The inductive invariant                                                 *)

(* The operands that exist: those of the source, an incoming value for     *)
(* each edge into a block with an inserted PHI, and lookups for these PHIs.*)
SitesInv ==
  /\ SourceSites(prog) \subseteq DOMAIN operand
  /\ \A s \in DOMAIN operand : IsLookup(s) => <<s.at[1], s.slot>> \in insertedPhis
  /\ \A x \in insertedPhis :
       \A e \in EdgesInto(prog, x[1]) : PhiSite(x[1], x[2], e) \in DOMAIN operand

(* reaching_definitions is closed: it leads from each version it knows to  *)
(* a version of the same name, and it knows each value in an operand.      *)
ChainInv ==
  /\ \A n \in DefinedNames(prog) : NameValue(prog, n) \in DOMAIN reaching
  /\ \A v \in DOMAIN reaching : /\ IsVersion(v)
                                /\ reaching[v] \in DOMAIN reaching
                                /\ reaching[v].of = v.of
  /\ \A s \in DOMAIN operand : operand[s] \in DOMAIN reaching

SearchInv ==
  pc = "search" => /\ site \in DOMAIN operand
                   /\ probe \in DOMAIN reaching
                   /\ probe.of = operand[site].of

CursorInv == pc = "insert" => current \in DefinedNames(prog)

IInv ==
  /\ TypeOK
  /\ SitesInv
  /\ ChainInv
  /\ SearchInv
  /\ CursorInv
  /\ OperandsKeepTheirNames
  /\ OperandsAreDefined
  /\ LiveOutsNameTheirArgument

LEMMA SourcePhiFacts ==
  ASSUME NEW p \in Programs, NEW x \in SourcePhis(p)
  PROVE  x = <<x[1], x[2]>> /\ x[1] \in p.blocks /\ x[2] \in DOMAIN p.phis[x[1]] /\ x[2] \in Names
<1>1. PICK b \in p.blocks : x \in {b} \X DOMAIN p.phis[b]
  BY DEF SourcePhis
<1>2. DOMAIN p.phis[b] \subseteq Names
  BY ProgramsAssumption DEF WellFormed
<1> QED
  BY <1>1, <1>2

LEMMA SourceSiteFacts ==
  ASSUME NEW p \in Programs, NEW s \in SourceSites(p)
  PROVE  /\ s \in Sites
         /\ ~ IsLookup(s)
         /\ NameAt(p, s) \in DefinedNames(p)
         /\ Dominates(p, DefPosition(p, NameAt(p, s)), Point(p, s))
<1>1. NameAt(p, s) \in DefinedNames(p) /\ Dominates(p, DefPosition(p, NameAt(p, s)), Point(p, s))
  BY ProgramsAssumption DEF InSSAForm
<1>2. ASSUME NEW x \in CodePositions(p), NEW n \in Names \cup {"obj", "in"},
             s = [at |-> x, slot |-> n, edge |-> Absent]
      PROVE  s \in Sites /\ ~ IsLookup(s)
  <2>1. x = <<x[1], x[2]>> /\ x[1] \in p.blocks /\ x[2] \in 1 .. Len(p.code[x[1]])
    BY CodePositionFacts
  <2>2. x \in Positions
    BY <2>1 DEF Positions, Blocks
  <2>3. x[2] # 0
    BY <2>1, CodeLength
  <2> QED
    BY <1>2, <2>2, <2>3 DEF Sites, IsLookup
<1>3. ASSUME NEW x \in SourcePhis(p), NEW e \in EdgesInto(p, x[1]), s = PhiSite(x[1], x[2], e)
      PROVE  s \in Sites /\ ~ IsLookup(s)
  <2>1. x[1] \in p.blocks /\ x[2] \in Names
    BY SourcePhiFacts
  <2>2. <<x[1], 0>> \in Positions
    BY <2>1 DEF Positions, Blocks
  <2>3. e \in Blocks \X Nat /\ e # Absent
    BY <2>1, EdgeFacts
  <2> QED
    BY <1>3, <2>1, <2>2, <2>3 DEF Sites, IsLookup, PhiSite
<1>4. CASE \E x \in CodePositions(p) : s = ObjSite(x[1], x[2]) \/ s = InSite(x[1], x[2])
  <2>1. PICK x \in CodePositions(p) : s = ObjSite(x[1], x[2]) \/ s = InSite(x[1], x[2])
    BY <1>4
  <2>2. x = <<x[1], x[2]>>
    BY CodePositionFacts
  <2> QED
    BY <1>1, <1>2, <2>1, <2>2 DEF ObjSite, InSite
<1>5. CASE \E x \in CodePositions(p) : \E a \in p.args : s = NameSite(x[1], x[2], a)
  <2>1. PICK x \in CodePositions(p), a \in p.args : s = NameSite(x[1], x[2], a)
    BY <1>5
  <2>2. x = <<x[1], x[2]>>
    BY CodePositionFacts
  <2>3. a \in Names
    BY ProgramsAssumption DEF WellFormed
  <2> QED
    BY <1>1, <1>2, <2>1, <2>2, <2>3 DEF NameSite
<1> QED
  BY <1>1, <1>3, <1>4, <1>5 DEF SourceSites

LEMMA InitInv == Init => IInv
<1> SUFFICES ASSUME Init
             PROVE  IInv
  OBVIOUS
<1> USE DEF Init
<1>1. /\ prog.entry \in prog.blocks
      /\ Len(prog.code[prog.entry]) \in Nat
  BY GraphFacts, CodeLength
<1>2. \A n \in DefinedNames(prog) : /\ NameValue(prog, n) \in Values
                                    /\ NameValue(prog, n).kind = "name"
                                    /\ NameValue(prog, n).of = n
                                    /\ NameValue(prog, n).at = DefPosition(prog, n)
                                    /\ IsVersion(NameValue(prog, n))
  BY NameValueFacts DEF IsVersion
<1>3. \A s \in SourceSites(prog) :
        /\ s \in Sites
        /\ ~ IsLookup(s)
        /\ NameAt(prog, s) \in DefinedNames(prog)
        /\ Dominates(prog, DefPosition(prog, NameAt(prog, s)), Point(prog, s))
  BY SourceSiteFacts
<1>4. TypeOK
  <2>1. DOMAIN operand \subseteq Sites /\ operand \in [DOMAIN operand -> Values]
    BY <1>2, <1>3
  <2>2. DOMAIN reaching \subseteq Values /\ reaching \in [DOMAIN reaching -> Values]
    BY <1>2
  <2> HIDE DEF Init
  <2>0. /\ todo = <<{prog.entry}>>
        /\ requests = <<>>
        /\ block = prog.entry
        /\ idx = 0
    BY DEF Init
  <2>3. todo \in Seq(SUBSET prog.blocks)
    <3>1. {prog.entry} \in SUBSET prog.blocks
      BY <1>1
    <3> QED
      BY <2>0, <3>1, SeqOfOne
  <2>4. requests \in Seq(SUBSET DOMAIN operand)
    BY <2>0
  <2>5. liveOut \in [DOMAIN liveOut -> prog.args]
    BY DEF Init
  <2>6. idx \in 0 .. Len(prog.code[block]) + 1 /\ block \in prog.blocks
    BY <1>1, <2>0
  <2>7. insertedPhis \subseteq prog.blocks \X DefinedNames(prog) /\ defWork \subseteq prog.blocks
    BY DEF Init
  <2> QED
    BY <2>1, <2>2, <2>3, <2>4, <2>5, <2>6, <2>7 DEF TypeOK, PCs, Init
<1>5. SitesInv
  BY <1>3 DEF SitesInv
<1>6. ChainInv
  BY <1>2, <1>3 DEF ChainInv
<1>7. SearchInv /\ CursorInv
  BY DEF SearchInv, CursorInv
<1>8. OperandsKeepTheirNames /\ OperandsAreDefined
  BY <1>2, <1>3 DEF OperandsKeepTheirNames, OperandsAreDefined
<1>9. LiveOutsNameTheirArgument
  BY DEF LiveOutsNameTheirArgument
<1> QED
  BY <1>4, <1>5, <1>6, <1>7, <1>8, <1>9 DEF IInv

-----------------------------------------------------------------------------
(* The steps that leave the program as it is                               *)

LEMMA FormStays ==
  ASSUME IInv, UNCHANGED <<prog, insertedPhis, reaching, operand>>
  PROVE  (SitesInv /\ ChainInv /\ OperandsKeepTheirNames /\ OperandsAreDefined)'
BY DEF IInv, SitesInv, ChainInv, OperandsKeepTheirNames, OperandsAreDefined, IsVersion

LEMMA DefParentsFacts ==
  ASSUME prog \in Programs, NEW n \in DefinedNames(prog)
  PROVE  DefParents(n) \subseteq prog.blocks
<1>1. DefPosition(prog, n)[1] \in prog.blocks
  BY DefPositionFacts
<1>2. MutatingBlocks(prog, n) \subseteq prog.blocks
  BY CodePositionFacts DEF MutatingBlocks
<1> QED
  BY <1>1, <1>2 DEF DefParents

LEMMA PickNameInv == IInv /\ PickName => IInv'
<1> SUFFICES ASSUME IInv, PickName
             PROVE  IInv'
  OBVIOUS
<1>1. (SitesInv /\ ChainInv /\ OperandsKeepTheirNames /\ OperandsAreDefined)'
  BY FormStays DEF PickName
<1>2. PICK n \in unprocessed : /\ current' = n
                               /\ unprocessed' = unprocessed \ {n}
                               /\ defWork' = DefParents(n)
  BY DEF PickName
<1>3. n \in DefinedNames(prog) /\ prog \in Programs
  BY DEF IInv, TypeOK
<1>4. TypeOK'
  BY <1>2, <1>3, DefParentsFacts
     DEF IInv, TypeOK, PickName, PCs, walkVars, renameVars
<1>5. (SearchInv /\ CursorInv)'
  BY <1>2, <1>3 DEF SearchInv, CursorInv, PickName
<1>6. LiveOutsNameTheirArgument'
  BY DEF IInv, LiveOutsNameTheirArgument, PickName
<1> QED
  BY <1>1, <1>4, <1>5, <1>6 DEF IInv

LEMMA NameDoneInv == IInv /\ NameDone => IInv'
<1> SUFFICES ASSUME IInv, NameDone
             PROVE  IInv'
  OBVIOUS
<1>1. (SitesInv /\ ChainInv /\ OperandsKeepTheirNames /\ OperandsAreDefined)'
  BY FormStays DEF NameDone, phiVars
<1>2. TypeOK'
  BY DEF IInv, TypeOK, NameDone, PCs, phiVars, walkVars, renameVars
<1>3. (SearchInv /\ CursorInv /\ LiveOutsNameTheirArgument)'
  BY DEF IInv, SearchInv, CursorInv, LiveOutsNameTheirArgument, NameDone
<1> QED
  BY <1>1, <1>2, <1>3 DEF IInv

LEMMA SubtreeDoneInv == IInv /\ SubtreeDone => IInv'
<1> SUFFICES ASSUME IInv, SubtreeDone
             PROVE  IInv'
  OBVIOUS
<1>1. (SitesInv /\ ChainInv /\ OperandsKeepTheirNames /\ OperandsAreDefined)'
  BY FormStays DEF SubtreeDone, phiVars
<1>2. todo' \in Seq(SUBSET prog.blocks)
  BY SeqRest DEF IInv, TypeOK, SubtreeDone
<1>3. TypeOK'
  BY <1>2 DEF IInv, TypeOK, SubtreeDone, PCs, phiVars, renameVars
<1>4. (SearchInv /\ CursorInv /\ LiveOutsNameTheirArgument)'
  BY DEF IInv, SearchInv, CursorInv, LiveOutsNameTheirArgument, SubtreeDone, phiVars, renameVars
<1> QED
  BY <1>1, <1>3, <1>4 DEF IInv

LEMMA WalkDoneInv == IInv /\ WalkDone => IInv'
<1> SUFFICES ASSUME IInv, WalkDone
             PROVE  IInv'
  OBVIOUS
<1>1. (SitesInv /\ ChainInv /\ OperandsKeepTheirNames /\ OperandsAreDefined)'
  BY FormStays DEF WalkDone, phiVars
<1>2. TypeOK'
  BY DEF IInv, TypeOK, WalkDone, PCs, phiVars, walkVars, renameVars
<1>3. (SearchInv /\ CursorInv /\ LiveOutsNameTheirArgument)'
  BY DEF IInv, SearchInv, CursorInv, LiveOutsNameTheirArgument, WalkDone
<1> QED
  BY <1>1, <1>2, <1>3 DEF IInv

LEMMA LeaveBlockInv == IInv /\ LeaveBlock => IInv'
<1> SUFFICES ASSUME IInv, LeaveBlock
             PROVE  IInv'
  OBVIOUS
<1>1. (SitesInv /\ ChainInv /\ OperandsKeepTheirNames /\ OperandsAreDefined)'
  BY FormStays DEF LeaveBlock, phiVars
<1>2. TypeOK'
  BY DEF IInv, TypeOK, LeaveBlock, PCs, phiVars, walkVars, renameVars
<1>3. (SearchInv /\ CursorInv /\ LiveOutsNameTheirArgument)'
  BY DEF IInv, SearchInv, CursorInv, LiveOutsNameTheirArgument, LeaveBlock
<1> QED
  BY <1>1, <1>2, <1>3 DEF IInv

(* The search begins at the value an operand holds, which is in the map.   *)
LEMMA BeginInv == IInv /\ Begin => IInv'
<1> SUFFICES ASSUME IInv, Begin
             PROVE  IInv'
  OBVIOUS
<1>1. (SitesInv /\ ChainInv /\ OperandsKeepTheirNames /\ OperandsAreDefined)'
  BY FormStays DEF Begin, phiVars
<1>2. /\ requests \in Seq(SUBSET DOMAIN operand)
      /\ requests # <<>>
      /\ Head(requests) \in SUBSET DOMAIN operand
      /\ Tail(requests) \in Seq(SUBSET DOMAIN operand)
  BY SeqRest DEF IInv, TypeOK, Begin
<1>3. CASE Head(requests) = {}
  <2>1. TypeOK'
    BY <1>2, <1>3 DEF IInv, TypeOK, Begin, phiVars, walkVars
  <2>2. (SearchInv /\ CursorInv /\ LiveOutsNameTheirArgument)'
    BY <1>3 DEF IInv, SearchInv, CursorInv, LiveOutsNameTheirArgument, Begin
  <2> QED
    BY <1>1, <2>1, <2>2 DEF IInv
<1>4. CASE Head(requests) # {}
  <2>1. PICK s \in Head(requests) : /\ requests' = [requests EXCEPT ![1] = @ \ {s}]
                                    /\ site' = s
                                    /\ probe' = operand[s]
                                    /\ pc' = "search"
    BY <1>4 DEF Begin
  <2>2. s \in DOMAIN operand /\ operand[s] \in DOMAIN reaching /\ operand[s] \in Values
    BY <1>2 DEF IInv, TypeOK, ChainInv
  <2>3. requests' \in Seq(SUBSET DOMAIN operand)
    BY <1>2, <2>1
  <2>4. TypeOK'
    BY <1>2, <2>1, <2>2, <2>3 DEF IInv, TypeOK, Begin, PCs, phiVars, walkVars
  <2>5. (SearchInv /\ CursorInv /\ LiveOutsNameTheirArgument)'
    BY <2>1, <2>2 DEF IInv, SearchInv, CursorInv, LiveOutsNameTheirArgument, Begin
  <2> QED
    BY <1>1, <2>4, <2>5 DEF IInv
<1> QED
  BY <1>3, <1>4

(* The map is closed, so the value the search is at has a next one, of the *)
(* same name.                                                              *)
LEMMA NextProbeFacts ==
  ASSUME IInv, pc = "search"
  PROVE  /\ site \in DOMAIN operand
         /\ NextProbe \in DOMAIN reaching
         /\ NextProbe \in Values
         /\ IsVersion(NextProbe)
         /\ NextProbe.of = operand[site].of
         /\ NextProbe # NoValue
<1>1. /\ site \in DOMAIN operand
      /\ probe \in DOMAIN reaching
      /\ probe.of = operand[site].of
  BY DEF IInv, SearchInv
<1>2. NextProbe = reaching[probe]
  BY <1>1 DEF NextProbe
<1>3. /\ NextProbe \in DOMAIN reaching
      /\ IsVersion(NextProbe)
      /\ NextProbe.of = operand[site].of
  BY <1>1, <1>2 DEF IInv, ChainInv
<1>4. NextProbe \in Values
  BY <1>3 DEF IInv, TypeOK
<1>5. NextProbe # NoValue
  BY <1>4 DEF Values, NoValue
<1> QED
  BY <1>1, <1>3, <1>4, <1>5

LEMMA FollowInv == IInv /\ Follow => IInv'
<1> SUFFICES ASSUME IInv, Follow
             PROVE  IInv'
  OBVIOUS
<1>1. (SitesInv /\ ChainInv /\ OperandsKeepTheirNames /\ OperandsAreDefined)'
  BY FormStays DEF Follow, phiVars
<1>2. probe' = NextProbe /\ pc = "search"
  BY DEF Follow
<1>3. TypeOK'
  BY <1>2, NextProbeFacts DEF IInv, TypeOK, Follow, PCs, phiVars, walkVars
<1>4. (SearchInv /\ CursorInv /\ LiveOutsNameTheirArgument)'
  BY <1>2, NextProbeFacts
     DEF IInv, SearchInv, CursorInv, LiveOutsNameTheirArgument, Follow, phiVars
<1> QED
  BY <1>1, <1>3, <1>4 DEF IInv

-----------------------------------------------------------------------------
(* The insertion of PHIs                                                   *)

LEMMA FrontierFacts ==
  ASSUME NEW p \in Programs, NEW b \in p.blocks, NEW f \in p.frontier[b]
  PROVE  f \in p.blocks /\ Preds(p, f) # {}
<1>1. p.frontier[b] = Frontier(p, p.dom, b)
  BY GraphFacts DEF AnalysisIsSound
<1> QED
  BY <1>1 DEF Frontier

(* A new PHI and its dummies, in a block that needs a PHI for a name.      *)
LEMMA DummyFacts ==
  ASSUME prog \in Programs, NEW n \in DefinedNames(prog), NEW f \in prog.blocks,
         Preds(prog, f) # {}, NeedsPhi(n, f), NEW e \in EdgesInto(prog, f)
  PROVE  /\ PhiSite(f, n, e) \in Sites
         /\ ~ IsLookup(PhiSite(f, n, e))
         /\ NameAt(prog, PhiSite(f, n, e)) = n
         /\ Dominates(prog, NameValue(prog, n).at, Point(prog, PhiSite(f, n, e)))
<1>1. e[1] \in Preds(prog, f) /\ e \in Blocks \X Nat /\ e # Absent
  BY EdgeFacts
<1>2. n \in Names /\ n # "obj" /\ n # "in" /\ <<f, 0>> \in Positions
  BY NamesAssumption DEF DefinedNames, Positions, Blocks
<1>3. /\ PhiSite(f, n, e) \in Sites
      /\ ~ IsLookup(PhiSite(f, n, e))
      /\ Point(prog, PhiSite(f, n, e)) = Terminator(prog, e[1])
  BY <1>1, <1>2 DEF PhiSite, Sites, IsLookup, Point
<1>4. <<f, n>> \notin SourcePhis(prog)
  BY InsertedPhisAreNew DEF NeedsPhi, DominatesPreds
<1>5. NameAt(prog, PhiSite(f, n, e)) = n
  BY <1>1, <1>2, <1>4 DEF NameAt, PhiSite
<1>6. e[1] \in prog.blocks /\ (n \in prog.args \/ <<DefPosition(prog, n)[1], e[1]>> \in prog.dom)
  BY <1>1 DEF NeedsPhi, DominatesPreds, Preds
<1>7. Dominates(prog, DefPosition(prog, n), Terminator(prog, e[1]))
  BY <1>6, DummiesAreDominated
<1> QED
  BY <1>3, <1>5, <1>7, NameValueFacts

LEMMA InsertPhisInv == IInv /\ InsertPhis => IInv'
<1> SUFFICES ASSUME IInv, InsertPhis
             PROVE  IInv'
  OBVIOUS
<1>1. PICK b \in defWork :
        LET new == {f \in prog.frontier[b] : NeedsPhi(current, f)}
            sites == UNION {{PhiSite(f, current, e) : e \in EdgesInto(prog, f)} : f \in new}
        IN  /\ insertedPhis' = insertedPhis \cup (new \X {current})
            /\ defWork' = (defWork \ {b}) \cup new
            /\ operand' = [s \in DOMAIN operand \cup sites |->
                             IF s \in sites THEN NameValue(prog, current) ELSE operand[s]]
  BY DEF InsertPhis
<1> DEFINE new == {f \in prog.frontier[b] : NeedsPhi(current, f)}
           sites == UNION {{PhiSite(f, current, e) : e \in EdgesInto(prog, f)} : f \in new}
           dummy == NameValue(prog, current)
<1>2. /\ insertedPhis' = insertedPhis \cup (new \X {current})
      /\ defWork' = (defWork \ {b}) \cup new
      /\ operand' = [s \in DOMAIN operand \cup sites |->
                       IF s \in sites THEN dummy ELSE operand[s]]
  BY <1>1
<1>3. /\ prog \in Programs
      /\ b \in prog.blocks
      /\ current \in DefinedNames(prog)
      /\ pc = "insert"
  BY DEF IInv, TypeOK, CursorInv, InsertPhis
<1>4. new \subseteq prog.blocks /\ \A f \in new : Preds(prog, f) # {}
  BY <1>3, FrontierFacts
<1>5. \A s \in sites : /\ s \in Sites
                       /\ ~ IsLookup(s)
                       /\ NameAt(prog, s) = current
                       /\ Dominates(prog, dummy.at, Point(prog, s))
  BY <1>3, <1>4, DummyFacts
<1>6. /\ dummy \in Values
      /\ dummy.of = current
      /\ IsVersion(dummy)
      /\ dummy \in DOMAIN reaching
  BY <1>3, NameValueFacts DEF IsVersion, IInv, ChainInv
<1>7. UNCHANGED <<prog, pc, unprocessed, current, walkVars, renameVars, reaching, liveOut>>
  BY DEF InsertPhis
<1>8. DOMAIN operand' = DOMAIN operand \cup sites
  BY <1>2
<1>9. \A s \in DOMAIN operand' :
        \/ s \in sites /\ operand'[s] = dummy
        \/ s \in DOMAIN operand \ sites /\ operand'[s] = operand[s]
  BY <1>2
<1>10. \A v : IsVersion(v) => IsVersion(v)'
  BY <1>2, <1>7 DEF IsVersion
<1> HIDE DEF sites, dummy, new
<1>11. TypeOK'
  <2>1. /\ DOMAIN operand' \subseteq Sites
        /\ \A s \in DOMAIN operand' : operand'[s] \in Values
    BY <1>5, <1>6, <1>8, <1>9 DEF IInv, TypeOK
  <2>2. operand' \in [DOMAIN operand' -> Values]
    BY <1>2, <2>1
  <2>3. requests' \in Seq(SUBSET DOMAIN operand')
    <3>1. SUBSET DOMAIN operand \subseteq SUBSET DOMAIN operand'
      BY <1>8
    <3> QED
      BY <1>7, <3>1, SeqMonotone DEF renameVars, IInv, TypeOK
  <2>4. insertedPhis' \subseteq prog.blocks \X DefinedNames(prog) /\ defWork' \subseteq prog.blocks
    BY <1>2, <1>3, <1>4 DEF IInv, TypeOK
  <2>5. site' \in DOMAIN operand' \cup {Absent}
    BY <1>7, <1>8 DEF renameVars, IInv, TypeOK
  <2> QED
    BY <1>7, <2>1, <2>2, <2>3, <2>4, <2>5 DEF IInv, TypeOK, walkVars, renameVars
<1>12. SitesInv'
  <2>1. SourceSites(prog') \subseteq DOMAIN operand'
    BY <1>7, <1>8 DEF IInv, SitesInv
  <2>2. \A s \in DOMAIN operand' : IsLookup(s) => <<s.at[1], s.slot>> \in insertedPhis'
    BY <1>2, <1>5, <1>8 DEF IInv, SitesInv
  <2>3. ASSUME NEW x \in insertedPhis', NEW e \in EdgesInto(prog, x[1])
        PROVE  PhiSite(x[1], x[2], e) \in DOMAIN operand'
    <3>1. CASE x \in insertedPhis
      BY <1>8, <3>1 DEF IInv, SitesInv
    <3>2. CASE x \in new \X {current}
      BY <1>8, <3>2 DEF sites
    <3> QED
      BY <1>2, <3>1, <3>2
  <2> QED
    BY <1>7, <2>1, <2>2, <2>3 DEF SitesInv, IsLookup
<1>13. ChainInv'
  BY <1>6, <1>7, <1>9, <1>10 DEF IInv, ChainInv
<1>14. (SearchInv /\ CursorInv)'
  BY <1>3, <1>7 DEF SearchInv, CursorInv
<1>15. OperandsKeepTheirNames'
  BY <1>5, <1>6, <1>7, <1>9 DEF IInv, OperandsKeepTheirNames
<1>16. OperandsAreDefined'
  BY <1>5, <1>6, <1>7, <1>9, <1>10 DEF IInv, OperandsAreDefined
<1>17. LiveOutsNameTheirArgument'
  BY <1>7 DEF IInv, LiveOutsNameTheirArgument
<1> QED
  BY <1>11, <1>12, <1>13, <1>14, <1>15, <1>16, <1>17 DEF IInv

-----------------------------------------------------------------------------
(* The walk                                                                *)

LEMMA PickBlockInv == IInv /\ PickBlock => IInv'
<1> SUFFICES ASSUME IInv, PickBlock
             PROVE  IInv'
  OBVIOUS
<1>1. PICK b \in Head(todo) :
        LET own == {NameValue(prog, n) : n \in DOMAIN prog.phis[b]} IN
        /\ block' = b
        /\ todo' = <<prog.children[b], Head(todo) \ {b}>> \o Tail(todo)
        /\ requests' = <<PhiRequests(b)>>
        /\ operand' = [s \in DOMAIN operand \cup PhiRequests(b) |->
                         IF s \in PhiRequests(b) THEN NameValue(prog, s.slot)
                                                 ELSE operand[s]]
        /\ reaching' = [v \in DOMAIN reaching |-> IF v \in own THEN v ELSE reaching[v]]
  BY DEF PickBlock
<1> DEFINE own == {NameValue(prog, n) : n \in DOMAIN prog.phis[b]}
           lookups == PhiRequests(b)
<1>2. /\ block' = b
      /\ todo' = <<prog.children[b], Head(todo) \ {b}>> \o Tail(todo)
      /\ requests' = <<lookups>>
      /\ operand' = [s \in DOMAIN operand \cup lookups |->
                       IF s \in lookups THEN NameValue(prog, s.slot) ELSE operand[s]]
      /\ reaching' = [v \in DOMAIN reaching |-> IF v \in own THEN v ELSE reaching[v]]
  BY <1>1
<1>3. /\ idx' = 0
      /\ pc' = "visit"
      /\ UNCHANGED <<prog, unprocessed, defWork, current, insertedPhis, site, probe, liveOut>>
  BY DEF PickBlock, phiVars
<1>4. /\ prog \in Programs
      /\ Head(todo) \in SUBSET prog.blocks
      /\ Tail(todo) \in Seq(SUBSET prog.blocks)
      /\ b \in prog.blocks
  <2>1. prog \in Programs /\ todo \in Seq(SUBSET prog.blocks) /\ todo # <<>>
    BY DEF IInv, TypeOK, PickBlock
  <2> QED
    BY <1>1, <2>1, SeqRest
<1>5. \A s \in lookups : /\ s \in Sites
                         /\ IsLookup(s)
                         /\ s.slot \in DefinedNames(prog)
                         /\ <<s.at[1], s.slot>> \in insertedPhis
                         /\ NameAt(prog, s) = s.slot
  <2>1. ASSUME NEW n \in Names, <<b, n>> \in insertedPhis
        PROVE  /\ NameSite(b, 0, n) \in Sites
               /\ IsLookup(NameSite(b, 0, n))
               /\ NameSite(b, 0, n).slot = n
               /\ NameSite(b, 0, n).at[1] = b
               /\ n \in DefinedNames(prog)
               /\ NameAt(prog, NameSite(b, 0, n)) = n
    <3>1. n \in DefinedNames(prog) /\ n # "obj" /\ n # "in"
      BY <2>1, NamesAssumption DEF IInv, TypeOK
    <3>2. <<b, 0>> \in Positions
      BY <1>4 DEF Positions, Blocks
    <3> QED
      BY <3>1, <3>2 DEF NameSite, Sites, IsLookup, NameAt
  <2>2. ASSUME NEW s \in lookups
        PROVE  /\ s \in Sites
               /\ IsLookup(s)
               /\ s.slot \in DefinedNames(prog)
               /\ <<s.at[1], s.slot>> \in insertedPhis
               /\ NameAt(prog, s) = s.slot
    <3>1. PICK n \in Names : <<b, n>> \in insertedPhis /\ s = NameSite(b, 0, n)
      BY DEF PhiRequests
    <3> QED
      BY <2>1, <3>1
  <2> QED
    BY <2>2
<1>6. \A n \in DefinedNames(prog) : /\ NameValue(prog, n) \in Values
                                    /\ NameValue(prog, n) \in DOMAIN reaching
                                    /\ NameValue(prog, n).of = n
                                    /\ IsVersion(NameValue(prog, n))
  BY <1>4, NameValueFacts DEF IsVersion, IInv, ChainInv
<1>7. DOMAIN operand' = DOMAIN operand \cup lookups /\ DOMAIN reaching' = DOMAIN reaching
  BY <1>2
<1>8. \A s \in DOMAIN operand' :
        \/ s \in lookups /\ operand'[s] = NameValue(prog, s.slot)
        \/ s \in DOMAIN operand \ lookups /\ operand'[s] = operand[s]
  BY <1>2
<1>9. \A v \in DOMAIN reaching' : reaching'[v] = v \/ reaching'[v] = reaching[v]
  BY <1>2
<1>10. \A v : IsVersion(v) <=> IsVersion(v)'
  BY <1>3 DEF IsVersion
<1> HIDE DEF own, lookups
<1>11. TypeOK'
  <2>1. operand' \in [DOMAIN operand' -> Values] /\ DOMAIN operand' \subseteq Sites
    <3>1. \A s \in DOMAIN operand' : operand'[s] \in Values /\ s \in Sites
      BY <1>5, <1>6, <1>7, <1>8 DEF IInv, TypeOK
    <3> QED
      BY <1>2, <3>1
  <2>2. reaching' \in [DOMAIN reaching' -> Values] /\ DOMAIN reaching' \subseteq Values
    <3>1. \A v \in DOMAIN reaching' : reaching'[v] \in Values /\ v \in Values
      BY <1>7, <1>9 DEF IInv, TypeOK
    <3> QED
      BY <1>2, <3>1
  <2>3. requests' \in Seq(SUBSET DOMAIN operand')
    <3>1. lookups \in SUBSET DOMAIN operand'
      BY <1>7
    <3> QED
      BY <1>2, <3>1, SeqOfOne
  <2>4. todo' \in Seq(SUBSET prog.blocks)
    <3>1. prog.children[b] \in SUBSET prog.blocks
      <4>1. prog.children[b] = DomChildren(prog, prog.dom, b)
        BY <1>4, GraphFacts DEF AnalysisIsSound
      <4> QED
        BY <4>1 DEF DomChildren
    <3>2. Head(todo) \ {b} \in SUBSET prog.blocks
      BY <1>4
    <3>3. <<prog.children[b], Head(todo) \ {b}>> \in Seq(SUBSET prog.blocks)
      BY <3>1, <3>2, SeqOfTwo
    <3> QED
      BY <1>2, <1>4, <3>3
  <2>5. block' \in prog.blocks /\ idx' \in 0 .. Len(prog.code[block']) + 1
    BY <1>2, <1>3, <1>4, CodeLength
  <2>6. site' \in DOMAIN operand' \cup {Absent}
    BY <1>3, <1>7 DEF IInv, TypeOK
  <2> QED
    BY <1>3, <2>1, <2>2, <2>3, <2>4, <2>5, <2>6 DEF IInv, TypeOK, PCs
<1>12. SitesInv'
  <2>1. SourceSites(prog') \subseteq DOMAIN operand'
    BY <1>3, <1>7 DEF IInv, SitesInv
  <2>2. \A s \in DOMAIN operand' : IsLookup(s) => <<s.at[1], s.slot>> \in insertedPhis
    BY <1>5, <1>7 DEF IInv, SitesInv
  <2>3. \A x \in insertedPhis :
          \A e \in EdgesInto(prog, x[1]) : PhiSite(x[1], x[2], e) \in DOMAIN operand'
    BY <1>7 DEF IInv, SitesInv
  <2> QED
    BY <1>3, <2>1, <2>2, <2>3 DEF SitesInv, IsLookup
<1>13. ChainInv'
  <2>1. \A s \in DOMAIN operand' : operand'[s] \in DOMAIN reaching'
    <3>1. \A s \in lookups : NameValue(prog, s.slot) \in DOMAIN reaching
      BY <1>5, <1>6
    <3>2. \A s \in DOMAIN operand : operand[s] \in DOMAIN reaching
      BY DEF IInv, ChainInv
    <3>3. ASSUME NEW s \in DOMAIN operand' PROVE operand'[s] \in DOMAIN reaching
      BY <1>8, <3>1, <3>2
    <3> QED
      BY <1>7, <3>3
  <2>2. \A v \in DOMAIN reaching' : /\ IsVersion(v)'
                                    /\ reaching'[v] \in DOMAIN reaching'
                                    /\ reaching'[v].of = v.of
    BY <1>7, <1>9, <1>10 DEF IInv, ChainInv
  <2> QED
    BY <1>3, <1>6, <1>7, <2>1, <2>2 DEF ChainInv
<1>14. (SearchInv /\ CursorInv)'
  BY <1>3 DEF SearchInv, CursorInv
<1>15. OperandsKeepTheirNames'
  BY <1>3, <1>5, <1>6, <1>8 DEF IInv, OperandsKeepTheirNames
<1>16. OperandsAreDefined'
  BY <1>3, <1>5, <1>6, <1>8, <1>10 DEF IInv, OperandsAreDefined
<1>17. LiveOutsNameTheirArgument'
  BY <1>3 DEF IInv, LiveOutsNameTheirArgument
<1> QED
  BY <1>11, <1>12, <1>13, <1>14, <1>15, <1>16, <1>17 DEF IInv

(* The value the loop ends with dominates the use, or is the variable the  *)
(* search began with, which does.                                          *)
LEMMA RenameInv == IInv /\ Rename => IInv'
<1> SUFFICES ASSUME IInv, Rename
             PROVE  IInv'
  OBVIOUS
<1> DEFINE v == NextProbe
           old == operand[site]
           phi == PhiValue(site.at[1], site.slot)
           found == Put(reaching, old, v)
<1>1. /\ pc = "search"
      /\ LoopEnds(v)
      /\ pc' = "visit"
      /\ UNCHANGED <<prog, unprocessed, defWork, current, insertedPhis, walkVars, renameVars, liveOut>>
  BY DEF Rename, phiVars
<1>2. /\ site \in DOMAIN operand
      /\ v \in DOMAIN reaching
      /\ v \in Values
      /\ IsVersion(v)
      /\ v.of = old.of
      /\ v # NoValue
  BY <1>1, NextProbeFacts
<1>3. /\ operand' = [operand EXCEPT ![site] = v]
      /\ reaching' = IF IsLookup(site) THEN Put(Put(found, old, phi), phi, v) ELSE found
  BY <1>2 DEF Rename, IsLookup, PhiReaching
<1>4. /\ DOMAIN reaching \subseteq Values
      /\ DOMAIN operand \subseteq Sites
      /\ operand \in [DOMAIN operand -> Values]
      /\ old \in Values
      /\ old \in DOMAIN reaching
      /\ IsVersion(old)
      /\ \A u \in DOMAIN reaching : /\ IsVersion(u)
                                    /\ reaching[u] \in DOMAIN reaching
                                    /\ reaching[u].of = u.of
  BY <1>2 DEF IInv, TypeOK, ChainInv
<1> HIDE DEF v, old, phi, found
<1>5. /\ DOMAIN found = DOMAIN reaching
      /\ DOMAIN found \subseteq Values
      /\ found \in [DOMAIN found -> Values]
      /\ \A u \in DOMAIN found : IsVersion(u) /\ found[u] \in DOMAIN found /\ found[u].of = u.of
  <2>1. found = Put(reaching, old, v)
    BY DEF found
  <2>2. /\ DOMAIN found = DOMAIN reaching
        /\ found[old] = v
        /\ \A u \in DOMAIN reaching \ {old} : found[u] = reaching[u]
        /\ found = [u \in DOMAIN found |-> found[u]]
    BY <1>4, <2>1 DEF Put
  <2>3. \A u \in DOMAIN found : IsVersion(u) /\ found[u] \in DOMAIN found /\ found[u].of = u.of
    BY <1>2, <1>4, <2>2
  <2> QED
    BY <1>4, <2>2, <2>3
<1>6. /\ DOMAIN reaching \subseteq DOMAIN reaching'
      /\ DOMAIN reaching' \subseteq Values
      /\ reaching' \in [DOMAIN reaching' -> Values]
      /\ \A u \in DOMAIN reaching' : /\ IsVersion(u)
                                     /\ reaching'[u] \in DOMAIN reaching'
                                     /\ reaching'[u].of = u.of
  <2>1. CASE ~ IsLookup(site)
    BY <1>3, <1>5, <2>1
  <2>2. CASE IsLookup(site)
    <3>1. <<site.at[1], site.slot>> \in insertedPhis
      BY <1>2, <2>2 DEF IInv, SitesInv
    <3>2. site.at[1] \in prog.blocks /\ site.slot \in DefinedNames(prog) /\ site.slot \in Names
      BY <3>1 DEF IInv, TypeOK, DefinedNames
    <3>3. phi \in Values /\ phi.of = site.slot /\ phi.kind = "phi" /\ phi.at[1] = site.at[1]
      <4>1. <<site.at[1], 0>> \in Positions
        BY <3>2 DEF Positions, Blocks, IInv, TypeOK
      <4> QED
        BY <3>2, <4>1 DEF phi, PhiValue, Values
    <3>4. IsVersion(phi)
      BY <3>1, <3>3 DEF IsVersion, phi
    <3>5. site.slot = old.of
      BY <1>2, <2>2, <3>2, NamesAssumption DEF IInv, OperandsKeepTheirNames, NameAt, IsLookup, old
    <3> DEFINE linked == Put(found, old, phi)
               g == Put(linked, phi, v)
    <3>6. /\ DOMAIN linked = DOMAIN reaching
          /\ linked[old] = phi
          /\ \A u \in DOMAIN reaching \ {old} : linked[u] = found[u]
      BY <1>4, <1>5 DEF Put
    <3>7. /\ DOMAIN g = DOMAIN reaching \cup {phi}
          /\ g[phi] = v
          /\ \A u \in DOMAIN reaching \ {phi} : g[u] = linked[u]
          /\ g = [u \in DOMAIN g |-> g[u]]
      <4> HIDE DEF linked
      <4> QED
        BY <3>6 DEF Put
    <3> HIDE DEF linked, g
    <3>8. \A u \in DOMAIN g : IsVersion(u) /\ g[u] \in DOMAIN g /\ g[u].of = u.of
      <4>1. ASSUME NEW u \in DOMAIN g
            PROVE  IsVersion(u) /\ g[u] \in DOMAIN g /\ g[u].of = u.of
        <5>1. CASE u = phi
          BY <1>2, <3>3, <3>4, <3>5, <3>7, <5>1
        <5>2. CASE u = old /\ u # phi
          BY <1>4, <3>3, <3>5, <3>6, <3>7, <5>2
        <5>3. CASE u \in DOMAIN reaching \ {old, phi}
          BY <1>5, <3>6, <3>7, <5>3
        <5> QED
          BY <3>7, <5>1, <5>2, <5>3
      <4> QED
        BY <4>1
    <3>9. DOMAIN g \subseteq Values /\ \A u \in DOMAIN g : g[u] \in Values
      BY <1>4, <3>3, <3>7, <3>8
    <3>10. reaching' = g
      BY <1>3, <2>2 DEF g, linked
    <3> QED
      BY <3>7, <3>8, <3>9, <3>10
  <2> QED
    BY <2>1, <2>2
<1>7. /\ DOMAIN operand' = DOMAIN operand
      /\ operand'[site] = v
      /\ \A s \in DOMAIN operand \ {site} : operand'[s] = operand[s]
      /\ operand' \in [DOMAIN operand' -> Values]
  BY <1>2, <1>3, <1>4
<1>8. \A u : IsVersion(u) <=> IsVersion(u)'
  BY <1>1 DEF IsVersion
<1>9. TypeOK'
  BY <1>1, <1>4, <1>6, <1>7 DEF IInv, TypeOK, PCs, walkVars, renameVars
<1>10. SitesInv'
  BY <1>1, <1>7 DEF IInv, SitesInv, IsLookup
<1>11. ChainInv'
  BY <1>1, <1>2, <1>6, <1>7, <1>8 DEF IInv, ChainInv
<1>12. (SearchInv /\ CursorInv)'
  BY <1>1 DEF SearchInv, CursorInv
<1>13. OperandsKeepTheirNames'
  BY <1>1, <1>2, <1>7 DEF IInv, OperandsKeepTheirNames, old
<1>14. OperandsAreDefined'
  <2>1. IsLookup(site) \/ Dominates(prog, v.at, Point(prog, site))
    BY <1>1, <1>2 DEF LoopEnds, IInv, OperandsAreDefined, old
  <2> QED
    BY <1>1, <1>2, <1>7, <1>8, <2>1 DEF IInv, OperandsAreDefined
<1>15. LiveOutsNameTheirArgument'
  BY <1>1 DEF IInv, LiveOutsNameTheirArgument
<1> QED
  BY <1>9, <1>10, <1>11, <1>12, <1>13, <1>14, <1>15 DEF IInv

LEMMA RequestFacts ==
  ASSUME IInv
  PROVE  /\ \A b \in prog.blocks : \A i \in 1 .. Len(prog.code[b]) :
              InstructionRequests(b, i) \in Seq(SUBSET DOMAIN operand)
         /\ \A b \in prog.blocks : SuccessorRequests(b) \in Seq(SUBSET DOMAIN operand)
<1>1. prog \in Programs /\ SourceSites(prog) \subseteq DOMAIN operand
  BY DEF IInv, TypeOK, SitesInv
<1>2. ASSUME NEW b \in prog.blocks, NEW i \in 1 .. Len(prog.code[b])
      PROVE  InstructionRequests(b, i) \in Seq(SUBSET DOMAIN operand)
  <2> DEFINE x == <<b, i>>
             ins == Instr(prog, x)
             Obj == IF ins.obj = Absent THEN {} ELSE {ObjSite(b, i)}
             In == IF ins.in = Absent THEN {} ELSE {InSite(b, i)}
             Args == {NameSite(b, i, a) : a \in prog.args}
  <2>1. x \in CodePositions(prog)
    BY <1>1, CodePositionIntro
  <2>2. Obj \in SUBSET DOMAIN operand
    <3>1. ins.obj # Absent => ObjSite(x[1], x[2]) \in SourceSites(prog)
      BY <2>1 DEF SourceSites
    <3> QED
      BY <1>1, <3>1
  <2>3. In \in SUBSET DOMAIN operand
    <3>1. ins.in # Absent => InSite(x[1], x[2]) \in SourceSites(prog)
      BY <2>1 DEF SourceSites
    <3> QED
      BY <1>1, <3>1
  <2>4. ins.op = "ret" => Args \in SUBSET DOMAIN operand
    <3>1. ins.op = "ret" => \A a \in prog.args : NameSite(x[1], x[2], a) \in SourceSites(prog)
      BY <2>1 DEF SourceSites
    <3> QED
      BY <1>1, <3>1
  <2>5. \/ InstructionRequests(b, i) = <<In, Obj>>
        \/ ins.op = "ret" /\ InstructionRequests(b, i) = <<Obj, Args>>
        \/ InstructionRequests(b, i) = <<Obj, In>>
    BY DEF InstructionRequests
  <2> HIDE DEF Obj, In, Args, ins
  <2> QED
    BY <2>2, <2>3, <2>4, <2>5, SeqOfTwo
<1>3. ASSUME NEW b \in prog.blocks
      PROVE  SuccessorRequests(b) \in Seq(SUBSET DOMAIN operand)
  <2>1. ASSUME NEW k \in DOMAIN prog.succ[b]
        PROVE  SuccessorRequests(b)[k] \in SUBSET DOMAIN operand
    <3> DEFINE t == prog.succ[b][k]
               all == DOMAIN prog.phis[t] \cup {n \in Names : <<t, n>> \in insertedPhis}
    <3>1. t \in prog.blocks
      BY <1>1, SuccessorFacts DEF SuccSet
    <3>2. ASSUME NEW n \in all, NEW e \in FirstEdges(b, t)
          PROVE  PhiSite(t, n, e) \in DOMAIN operand
      <4>1. e \in EdgesInto(prog, t)
        BY DEF FirstEdges
      <4>2. CASE n \in DOMAIN prog.phis[t]
        <5>1. <<t, n>> \in SourcePhis(prog)
          BY <3>1, <4>2 DEF SourcePhis
        <5>2. \A y \in SourcePhis(prog) : \A d \in EdgesInto(prog, y[1]) :
                PhiSite(y[1], y[2], d) \in SourceSites(prog)
          BY DEF SourceSites
        <5>3. PhiSite(t, n, e) \in SourceSites(prog)
          BY <4>1, <5>1, <5>2
        <5> QED
          BY <1>1, <5>3
      <4>3. CASE <<t, n>> \in insertedPhis
        BY <4>1, <4>3 DEF IInv, SitesInv
      <4> QED
        BY <4>2, <4>3
    <3>3. ASSUME NEW s \in IncomingSites(b, t)
          PROVE  s \in DOMAIN operand
      <4>1. PICK n \in all, e \in FirstEdges(b, t) : s = PhiSite(t, n, e)
        <5>1. IncomingSites(b, t) = {PhiSite(t, n, e) : n \in all, e \in FirstEdges(b, t)}
          BY DEF IncomingSites
        <5> HIDE DEF t, all
        <5> QED
          BY <3>3, <5>1
      <4> QED
        BY <3>2, <4>1
    <3> QED
      BY <3>3 DEF SuccessorRequests
  <2>2. DOMAIN prog.succ[b] = 1 .. Len(prog.succ[b]) /\ Len(prog.succ[b]) \in Nat
    BY <1>1, SuccessorFacts
  <2>3. \A k \in DOMAIN prog.succ[b] : IncomingSites(b, prog.succ[b][k]) \in SUBSET DOMAIN operand
    BY <2>1 DEF SuccessorRequests
  <2> QED
    BY <2>2, <2>3 DEF SuccessorRequests
<1> QED
  BY <1>2, <1>3

(* What the visitor of an instruction adds to the map: a version made from *)
(* the operand of the same object, and the instruction's own result.       *)
LEMMA NewReachingFacts ==
  ASSUME IInv, NEW b \in prog.blocks, NEW i \in 1 .. Len(prog.code[b])
  PROVE  /\ DOMAIN reaching \subseteq DOMAIN NewReaching(b, i)
         /\ DOMAIN NewReaching(b, i) \subseteq Values
         /\ NewReaching(b, i) \in [DOMAIN NewReaching(b, i) -> Values]
         /\ \A v \in DOMAIN NewReaching(b, i) :
              /\ IsVersion(v)
              /\ NewReaching(b, i)[v] \in DOMAIN NewReaching(b, i)
              /\ NewReaching(b, i)[v].of = v.of
<1> DEFINE x == <<b, i>>
           ins == Instr(prog, x)
           name == NameValue(prog, ins.obj)
           new == Redefinition(ins.obj, b, i)
           curr == operand[ObjSite(b, i)]
           linked == Put(reaching, name, new)
           updated == IF Redefines(ins) THEN Put(linked, new, curr) ELSE reaching
           result == NameValue(prog, ins.def)
           final == NewReaching(b, i)
           Closed(f) == /\ DOMAIN reaching \subseteq DOMAIN f
                        /\ f = [v \in DOMAIN f |-> f[v]]
                        /\ \A v \in DOMAIN f : /\ v \in Values
                                               /\ IsVersion(v)
                                               /\ f[v] \in DOMAIN f
                                               /\ f[v].of = v.of
<1>1. /\ prog \in Programs
      /\ x \in CodePositions(prog)
      /\ x \in Positions
      /\ ins \in Instructions
  <2>1. prog \in Programs
    BY DEF IInv, TypeOK
  <2> QED
    BY <2>1, CodePositionIntro, CodePositionFacts DEF Positions, Blocks
<1>2. Closed(reaching)
  BY DEF IInv, TypeOK, ChainInv
<1>3. Closed(updated)
  <2>1. CASE ~ Redefines(ins)
    BY <1>2, <2>1
  <2>2. CASE Redefines(ins)
    <3>1. ins.obj # Absent
      BY <1>1, <2>2, ProgramsAssumption DEF WellFormed
    <3>2. ObjSite(x[1], x[2]) \in SourceSites(prog)
      BY <1>1, <3>1 DEF SourceSites
    <3>3. /\ curr \in DOMAIN reaching
          /\ curr.of = NameAt(prog, ObjSite(b, i))
          /\ NameAt(prog, ObjSite(b, i)) \in DefinedNames(prog)
      BY <1>1, <3>2, SourceSiteFacts DEF IInv, SitesInv, ChainInv, OperandsKeepTheirNames
    <3>4. NameAt(prog, ObjSite(b, i)) = ins.obj
      BY DEF NameAt, ObjSite
    <3>5. ins.obj \in DefinedNames(prog) /\ ins.obj \in Names
      BY <3>3, <3>4 DEF DefinedNames
    <3>6. name \in DOMAIN reaching /\ name.of = ins.obj
      BY <1>1, <3>5, NameValueFacts DEF IInv, ChainInv
    <3>7. new \in Values /\ new.of = ins.obj /\ new.kind = "redef" /\ new.at = x
      BY <1>1, <3>5 DEF Redefinition, Values
    <3>8. IsVersion(new)
      BY <1>1, <2>2, <3>7 DEF IsVersion
    <3> HIDE DEF name, new, curr, ins, x
    <3>9. /\ DOMAIN linked = DOMAIN reaching
          /\ linked[name] = new
          /\ \A u \in DOMAIN reaching \ {name} : linked[u] = reaching[u]
      BY <3>6 DEF Put
    <3> HIDE DEF linked
    <3> DEFINE g == Put(linked, new, curr)
    <3>10. /\ DOMAIN g = DOMAIN reaching \cup {new}
           /\ g[new] = curr
           /\ \A u \in DOMAIN reaching \ {new} : g[u] = linked[u]
           /\ g = [u \in DOMAIN g |-> g[u]]
      BY <3>9 DEF Put
    <3>11. updated = g
      BY <2>2
    <3> HIDE DEF g, updated
    <3>12. ASSUME NEW u \in DOMAIN g
           PROVE  u \in Values /\ IsVersion(u) /\ g[u] \in DOMAIN g /\ g[u].of = u.of
      <4>1. CASE u = new
        BY <3>3, <3>4, <3>7, <3>8, <3>10, <4>1 DEF ins, x, curr
      <4>2. CASE u = name /\ u # new
        BY <1>2, <3>6, <3>7, <3>9, <3>10, <4>2
      <4>3. CASE u \in DOMAIN reaching \ {name, new}
        BY <1>2, <3>9, <3>10, <4>3
      <4> QED
        BY <3>10, <4>1, <4>2, <4>3
    <3> QED
      BY <3>10, <3>11, <3>12
  <2> QED
    BY <2>1, <2>2
<1>4. final = IF ins.def = Absent THEN updated ELSE Put(updated, result, result)
  BY DEF NewReaching
<1>5. ins.def # Absent => /\ result \in Values
                          /\ IsVersion(result)
  <2>1. SUFFICES ASSUME ins.def # Absent
                 PROVE  result \in Values /\ IsVersion(result)
    OBVIOUS
  <2>2. x \in DefPositions(prog, ins.def) /\ ins.def \in Names
    BY <1>1, <2>1 DEF DefPositions, Instructions
  <2>3. ins.def \in DefinedNames(prog)
    BY <2>2 DEF DefinedNames
  <2> QED
    BY <1>1, <2>3, NameValueFacts DEF IsVersion
<1> HIDE DEF updated, final, result, ins, x
<1>6. Closed(final)
  <2>1. CASE ins.def = Absent
    BY <1>3, <1>4, <2>1
  <2>2. CASE ins.def # Absent
    <3>1. /\ DOMAIN final = DOMAIN updated \cup {result}
          /\ final[result] = result
          /\ \A u \in DOMAIN updated \ {result} : final[u] = updated[u]
          /\ final = [u \in DOMAIN final |-> final[u]]
      BY <1>4, <2>2 DEF Put
    <3> QED
      BY <1>3, <1>5, <2>2, <3>1
  <2> QED
    BY <2>1, <2>2
<1> QED
  BY <1>6 DEF final

(* visitReturnInst records, for an argument, a version of the argument.    *)
LEMMA NewLiveOutFacts ==
  ASSUME IInv, NEW b \in prog.blocks, NEW i \in 1 .. Len(prog.code[b])
  PROVE  /\ NewLiveOut(b, i) \in [DOMAIN NewLiveOut(b, i) -> prog.args]
         /\ \A v \in DOMAIN NewLiveOut(b, i) : NewLiveOut(b, i)[v] = v.of
<1> DEFINE x == <<b, i>>
           ins == Instr(prog, x)
           Def(a) == operand[NameSite(b, i, a)]
           returned == IF ins.obj = Absent THEN NoValue ELSE operand[ObjSite(b, i)]
           outs == {a \in prog.args : Def(a) # returned /\ IsInstruction(Def(a))}
           final == [v \in DOMAIN liveOut \cup {Def(a) : a \in outs} |->
                       IF \E a \in outs : Def(a) = v THEN CHOOSE a \in outs : Def(a) = v
                                                     ELSE liveOut[v]]
<1>1. /\ liveOut \in [DOMAIN liveOut -> prog.args]
      /\ \A v \in DOMAIN liveOut : liveOut[v] = v.of
  BY DEF IInv, TypeOK, LiveOutsNameTheirArgument
<1>2. CASE ins.op # "ret"
  BY <1>1, <1>2 DEF NewLiveOut
<1>3. CASE ins.op = "ret"
  <2>1. ASSUME NEW a \in prog.args
        PROVE  Def(a).of = a
    <3>1. prog \in Programs /\ x \in CodePositions(prog)
      BY CodePositionIntro DEF IInv, TypeOK
    <3>2. NameSite(x[1], x[2], a) \in SourceSites(prog)
      BY <1>3, <3>1 DEF SourceSites
    <3>3. Def(a).of = NameAt(prog, NameSite(b, i, a))
      BY <3>2 DEF IInv, SitesInv, OperandsKeepTheirNames
    <3>4. a # "obj" /\ a # "in"
      BY <3>1, ArgumentFacts, NamesAssumption DEF DefinedNames
    <3> QED
      BY <3>3, <3>4 DEF NameAt, NameSite
  <2> HIDE DEF Def
  <2>2. \A v \in DOMAIN final : final[v] \in prog.args /\ final[v] = v.of
    BY <1>1, <2>1
  <2>3. NewLiveOut(b, i) = final
    BY <1>3 DEF NewLiveOut, Def
  <2> QED
    BY <2>2, <2>3
<1> QED
  BY <1>2, <1>3

LEMMA AdvanceInv == IInv /\ Advance => IInv'
<1> SUFFICES ASSUME IInv, Advance
             PROVE  IInv'
  OBVIOUS
<1>1. /\ pc = "visit"
      /\ idx <= Len(prog.code[block])
      /\ idx' = idx + 1
      /\ requests' = IF idx < Len(prog.code[block]) THEN InstructionRequests(block, idx + 1)
                                                    ELSE SuccessorRequests(block)
      /\ reaching' = IF idx = 0 THEN reaching ELSE NewReaching(block, idx)
      /\ liveOut' = IF idx = 0 THEN liveOut ELSE NewLiveOut(block, idx)
      /\ UNCHANGED <<prog, pc, unprocessed, defWork, current, insertedPhis, todo, block,
                     site, probe, operand>>
  BY DEF Advance, phiVars
<1>2. /\ prog \in Programs
      /\ block \in prog.blocks
      /\ Len(prog.code[block]) \in Nat
      /\ idx \in 0 .. Len(prog.code[block])
  BY <1>1, CodeLength DEF IInv, TypeOK
<1>3. requests' \in Seq(SUBSET DOMAIN operand)
  <2>1. CASE idx < Len(prog.code[block])
    BY <1>1, <1>2, <2>1, RequestFacts
  <2>2. CASE ~ (idx < Len(prog.code[block]))
    BY <1>1, <1>2, <2>2, RequestFacts
  <2> QED
    BY <2>1, <2>2
<1>4. /\ DOMAIN reaching \subseteq DOMAIN reaching'
      /\ DOMAIN reaching' \subseteq Values
      /\ reaching' \in [DOMAIN reaching' -> Values]
      /\ \A v \in DOMAIN reaching' : /\ IsVersion(v)
                                     /\ reaching'[v] \in DOMAIN reaching'
                                     /\ reaching'[v].of = v.of
  <2>1. CASE idx = 0
    BY <1>1, <2>1 DEF IInv, TypeOK, ChainInv
  <2>2. CASE idx # 0
    BY <1>1, <1>2, <2>2, NewReachingFacts
  <2> QED
    BY <2>1, <2>2
<1>5. /\ liveOut' \in [DOMAIN liveOut' -> prog.args]
      /\ \A v \in DOMAIN liveOut' : liveOut'[v] = v.of
  <2>1. CASE idx = 0
    BY <1>1, <2>1 DEF IInv, TypeOK, LiveOutsNameTheirArgument
  <2>2. CASE idx # 0
    BY <1>1, <1>2, <2>2, NewLiveOutFacts
  <2> QED
    BY <2>1, <2>2
<1>6. \A u : IsVersion(u) <=> IsVersion(u)'
  BY <1>1 DEF IsVersion
<1>7. TypeOK'
  BY <1>1, <1>2, <1>3, <1>4, <1>5 DEF IInv, TypeOK
<1>8. SitesInv'
  BY <1>1 DEF IInv, SitesInv, IsLookup
<1>9. ChainInv'
  BY <1>1, <1>4, <1>6 DEF IInv, ChainInv
<1>10. (SearchInv /\ CursorInv)'
  BY <1>1 DEF SearchInv, CursorInv
<1>11. OperandsKeepTheirNames'
  BY <1>1 DEF IInv, OperandsKeepTheirNames
<1>12. OperandsAreDefined'
  BY <1>1, <1>6 DEF IInv, OperandsAreDefined
<1>13. LiveOutsNameTheirArgument'
  BY <1>5 DEF LiveOutsNameTheirArgument
<1> QED
  BY <1>7, <1>8, <1>9, <1>10, <1>11, <1>12, <1>13 DEF IInv

-----------------------------------------------------------------------------
(* The theorems                                                            *)

LEMMA NextInv == IInv /\ [Next]_vars => IInv'
<1> SUFFICES ASSUME IInv, [Next]_vars
             PROVE  IInv'
  OBVIOUS
<1>1. CASE UNCHANGED vars
  <2>1. UNCHANGED <<prog, pc, unprocessed, defWork, current, insertedPhis, todo, block, idx,
                    requests, site, probe, reaching, operand, liveOut>>
    BY <1>1 DEF vars, phiVars, walkVars, renameVars
  <2>2. (SitesInv /\ ChainInv /\ OperandsKeepTheirNames /\ OperandsAreDefined)'
    BY <2>1, FormStays
  <2>3. (TypeOK /\ SearchInv /\ CursorInv /\ LiveOutsNameTheirArgument)'
    BY <2>1 DEF IInv, TypeOK, SearchInv, CursorInv, LiveOutsNameTheirArgument
  <2> QED
    BY <2>2, <2>3 DEF IInv
<1>2. CASE Construct
  BY <1>2, PickNameInv, InsertPhisInv, NameDoneInv, PickBlockInv, SubtreeDoneInv, WalkDoneInv,
     BeginInv, FollowInv, RenameInv, AdvanceInv, LeaveBlockInv DEF Construct, Walk
<1> QED
  BY <1>1, <1>2 DEF Next, Finished

(* A PHI is inserted below the definition of its name.                     *)
PhisBelow ==
  \A x \in insertedPhis : /\ x[1] # prog.entry
                          /\ Dominates(prog, DefPosition(prog, x[2]), <<x[1], 0>>)

LEMMA NeededBelow ==
  ASSUME prog \in Programs, NEW n \in DefinedNames(prog), NEW f \in prog.blocks,
         Preds(prog, f) # {}, DominatesPreds(n, f)
  PROVE  f # prog.entry /\ Dominates(prog, DefPosition(prog, n), <<f, 0>>)
<1>1. f # prog.entry
  BY SuccessorFacts DEF Preds
<1>2. CASE n \in prog.args
  <2>1. DefPosition(prog, n) = <<prog.entry, -1>>
    BY <1>2, ArgumentFacts
  <2>2. <<prog.entry, f>> \in prog.dom
    BY DominanceFacts, GraphFacts
  <2> QED
    BY <1>1, <2>1, <2>2 DEF Dominates
<1>3. CASE n \notin prog.args
  <2>1. \A q \in Preds(prog, f) : <<DefPosition(prog, n)[1], q>> \in prog.dom
    BY <1>3 DEF DominatesPreds
  <2>2. DefPosition(prog, n)[1] \in prog.blocks
    BY DefPositionFacts
  <2>3. <<DefPosition(prog, n)[1], f>> \in prog.dom
    BY <1>1, <2>1, <2>2, DominatedFromPreds
  <2>4. DefPosition(prog, n)[1] # f
    BY <1>1, <2>1, EnteredFromOutside
  <2> QED
    BY <1>1, <2>3, <2>4 DEF Dominates
<1> QED
  BY <1>2, <1>3

LEMMA PhisBelowNext == IInv /\ PhisBelow /\ [Next]_vars => PhisBelow'
<1> SUFFICES ASSUME IInv, PhisBelow, [Next]_vars
             PROVE  PhisBelow'
  OBVIOUS
<1>1. CASE UNCHANGED <<prog, insertedPhis>>
  BY <1>1 DEF PhisBelow
<1>2. CASE InsertPhis
  <2>1. PICK b \in defWork :
          insertedPhis' = insertedPhis
                            \cup ({f \in prog.frontier[b] : NeedsPhi(current, f)} \X {current})
    BY <1>2 DEF InsertPhis
  <2>2. prog \in Programs /\ b \in prog.blocks /\ current \in DefinedNames(prog) /\ prog' = prog
    BY <1>2 DEF IInv, TypeOK, CursorInv, InsertPhis
  <2>3. ASSUME NEW f \in prog.frontier[b], NeedsPhi(current, f)
        PROVE  f # prog.entry /\ Dominates(prog, DefPosition(prog, current), <<f, 0>>)
    BY <2>2, <2>3, FrontierFacts, NeededBelow DEF NeedsPhi
  <2> QED
    BY <2>1, <2>2, <2>3 DEF PhisBelow
<1> QED
  BY <1>1, <1>2 DEF Next, Construct, Walk, Finished, vars, phiVars, PickName, NameDone, PickBlock,
     SubtreeDone, WalkDone, Begin, Follow, Rename, Advance, LeaveBlock

LEMMA Invariance == Spec => []IInv
<1>1. Init => IInv
  BY InitInv
<1>2. IInv /\ [Next]_vars => IInv'
  BY NextInv
<1> QED
  BY <1>1, <1>2, PTL DEF Spec

(* The types of the pass's state, for every function.                      *)
THEOREM TypeCorrect == Spec => []TypeOK
<1>1. IInv => TypeOK
  BY DEF IInv
<1> QED
  BY <1>1, Invariance, PTL

(* However the walk left its map, no operand is given a version of another *)
(* object: update_reaching_definition stays within one name.               *)
THEOREM NamesAreKept == Spec => []OperandsKeepTheirNames
<1>1. IInv => OperandsKeepTheirNames
  BY DEF IInv
<1> QED
  BY <1>1, Invariance, PTL

(* The rewritten function is in SSA form: each operand is a value that is  *)
(* there and whose definition dominates the use.                           *)
THEOREM DominanceIsKept == Spec => []OperandsAreDefined
<1>1. IInv => OperandsAreDefined
  BY DEF IInv
<1> QED
  BY <1>1, Invariance, PTL

(* No two arguments share a live-out.                                      *)
THEOREM LiveOutsAreDistinct == Spec => []LiveOutsNameTheirArgument
<1>1. IInv => LiveOutsNameTheirArgument
  BY DEF IInv
<1> QED
  BY <1>1, Invariance, PTL

-----------------------------------------------------------------------------
(***************************************************************************)
(* The walk of the dominator tree gives each operand, once, the nearest    *)
(* version of its name: of the versions whose definition dominates the     *)
(* use the one that all others come before.  The functions are those       *)
(* whose blocks have no successor twice: of a switch that lists a block    *)
(* twice the walk asks for the same operands twice.                        *)
(*                                                                         *)
(* The invariant speaks of the blocks that are yet to be visited (TreeInv),*)
(* of the operands asked for at the current point (AskedHere, SiteIsHere)  *)
(* and of the versions (WalkInv): what is ahead of the walk still holds    *)
(* its name, what is behind it the nearest version, and although the map   *)
(* of reaching definitions is never popped, a chain of it passes over no   *)
(* version that dominates the current point.                               *)
(***************************************************************************)

(* Dominators, and what is left of the dominator tree                      *)

(* Of two dominators of a block one dominates the other.                   *)
LEMMA DominatorsCompare ==
  ASSUME NEW p \in Programs, NEW a \in p.blocks, NEW b \in p.blocks, NEW c \in p.blocks,
         <<a, c>> \in p.dom, <<b, c>> \in p.dom
  PROVE  <<a, b>> \in p.dom \/ <<b, a>> \in p.dom
<1> SUFFICES ASSUME <<a, b>> \notin p.dom, <<b, a>> \notin p.dom
             PROVE  FALSE
  OBVIOUS
<1>1. a # p.entry /\ b # p.entry /\ b \in ReachableAvoiding(p, a) /\ a \in ReachableAvoiding(p, b)
  BY DominanceFacts
<1>2. c # a /\ c # b
  OBVIOUS
<1>3. c \notin ReachableAvoiding(p, a) /\ c \notin ReachableAvoiding(p, b)
  BY <1>1, <1>2, DominanceFacts
<1> DEFINE S == ReachableAvoiding(p, a) \cup ReachableAvoiding(p, b)
<1>4. S \subseteq p.blocks /\ p.entry \in S
  BY <1>1, ReachableClosed
<1>5. \A q \in S : SuccSet(p, q) \subseteq S
  BY <1>1, ReachableClosed
<1>6. S = p.blocks
  BY <1>4, <1>5, GraphFacts DEF AllReachable
<1> QED
  BY <1>3, <1>6

LEMMA ChildFacts ==
  ASSUME NEW p \in Programs, NEW b \in p.blocks
  PROVE  /\ p.children[b] = DomChildren(p, p.dom, b)
         /\ p.children[b] \subseteq p.blocks
         /\ \A c \in p.children[b] :
              /\ c # b /\ <<b, c>> \in p.dom
              /\ \A a \in p.blocks : a # c /\ <<a, c>> \in p.dom => <<a, b>> \in p.dom
<1>1. p.children[b] = DomChildren(p, p.dom, b)
  BY GraphFacts DEF AnalysisIsSound
<1> QED
  BY <1>1 DEF DomChildren

(* What a block strictly dominates lies under one of its children.         *)
LEMMA UnderAChild ==
  ASSUME NEW p \in Programs, NEW b \in p.blocks, NEW c \in p.blocks,
         b # c, <<b, c>> \in p.dom
  PROVE  \E d \in p.children[b] : <<d, c>> \in p.dom
<1> DEFINE Under(x) == b # x /\ <<b, x>> \in p.dom
           S == {x \in p.blocks : Under(x) => \E d \in p.children[b] : <<d, x>> \in p.dom}
<1>1. p.entry \in S
  <2>1. p.entry \in p.blocks /\ <<p.entry, b>> \in p.dom
    BY GraphFacts, DominanceFacts
  <2>2. ~ Under(p.entry)
    BY <2>1, DominanceAntisymmetric
  <2> QED
    BY <2>1, <2>2
<1>2. ASSUME NEW q \in S, NEW t \in SuccSet(p, q)
      PROVE  t \in S
  <2>1. t \in p.blocks /\ t # p.entry /\ q \in Preds(p, t) /\ q \in p.blocks
    BY SuccessorFacts DEF Preds
  <2> SUFFICES ASSUME Under(t), \A d \in p.children[b] : <<d, t>> \notin p.dom
               PROVE  FALSE
    BY <2>1
  <2>2. \A a \in p.blocks : a # t /\ <<a, t>> \in p.dom => <<a, q>> \in p.dom
    BY <2>1, DominatesPredecessors
  <2>3. <<t, t>> \in p.dom
    BY <2>1, DominanceFacts
  <2>4. t \notin p.children[b]
    BY <2>3
  <2>5. PICK a \in p.blocks \ {t} : <<a, t>> \in p.dom /\ <<a, b>> \notin p.dom
    <3>1. t \in p.blocks \ {b} /\ <<b, t>> \in p.dom
      BY <2>1
    <3>2. t \notin DomChildren(p, p.dom, b)
      BY <2>4, ChildFacts
    <3> QED
      BY <3>1, <3>2 DEF DomChildren
  <2>6. <<a, q>> \in p.dom /\ <<b, q>> \in p.dom
    BY <2>2, <2>5
  <2>7. b # q
    BY <2>5, <2>6
  <2>8. PICK d \in p.children[b] : <<d, q>> \in p.dom
    BY <2>6, <2>7
  <2>9. d \in p.blocks
    BY ChildFacts
  <2>10. <<a, d>> \in p.dom \/ <<d, a>> \in p.dom
    BY <2>1, <2>6, <2>8, <2>9, DominatorsCompare
  <2>11. a # d => <<a, d>> \notin p.dom
    BY <2>5, <2>8, ChildFacts
  <2>12. <<d, a>> \in p.dom
    BY <2>1, <2>5, <2>9, <2>10, <2>11, DominanceFacts
  <2>13. <<d, t>> \in p.dom
    BY <2>1, <2>5, <2>9, <2>12, DominanceTransitive
  <2> QED
    BY <2>8, <2>13
<1>3. S = p.blocks
  <2>1. S \subseteq p.blocks /\ \A q \in S : SuccSet(p, q) \subseteq S
    BY <1>2
  <2> QED
    BY <1>1, <2>1, GraphFacts DEF AllReachable
<1> QED
  BY <1>3

-----------------------------------------------------------------------------
(* The walk of the dominator tree                                          *)

Walking == pc \in {"visit", "search"}

(* The blocks that are yet to be visited.                                  *)
Pending(c) == \E i \in DOMAIN todo : \E b \in todo[i] : <<b, c>> \in prog.dom

(* The worklist holds roots of subtrees that have no block in common.      *)
SubtreesAreApart ==
  \A i, j \in DOMAIN todo : \A b, c \in prog.blocks :
    b \in todo[i] /\ c \in todo[j] /\ <<b, c>> \in prog.dom => b = c /\ i = j

(* What is strictly above a root is above the roots before it.             *)
AncestorsAreShared ==
  \A i, j \in DOMAIN todo : \A a, b, c \in prog.blocks :
    /\ b \in todo[i] /\ c \in todo[j] /\ i <= j
    /\ a # c /\ <<a, c>> \in prog.dom
    => <<a, b>> \in prog.dom

(* And above the block that is visited, which is not to be visited again.  *)
BlockIsBefore ==
  Walking =>
    /\ ~ Pending(block)
    /\ \A i \in DOMAIN todo : \A a, c \in prog.blocks :
         c \in todo[i] /\ a # c /\ <<a, c>> \in prog.dom => <<a, block>> \in prog.dom

TreeInv ==
  /\ pc \in {"pick name", "insert"} => todo = <<{prog.entry}>>
  /\ SubtreesAreApart
  /\ AncestorsAreShared
  /\ BlockIsBefore

LEMMA Apart ==
  ASSUME SubtreesAreApart, NEW i \in DOMAIN todo, NEW j \in DOMAIN todo,
         NEW b \in prog.blocks, NEW c \in prog.blocks, b \in todo[i], c \in todo[j],
         <<b, c>> \in prog.dom
  PROVE  b = c /\ i = j
BY DEF SubtreesAreApart

LEMMA Shared ==
  ASSUME AncestorsAreShared, NEW i \in DOMAIN todo, NEW j \in DOMAIN todo, NEW a \in prog.blocks,
         NEW b \in prog.blocks, NEW c \in prog.blocks, b \in todo[i], c \in todo[j], i <= j,
         a # c, <<a, c>> \in prog.dom
  PROVE  <<a, b>> \in prog.dom
BY DEF AncestorsAreShared

LEMMA PickedFacts ==
  ASSUME IInv, TreeInv, NEW b \in prog.blocks, todo # <<>>, b \in Head(todo),
         todo' = <<prog.children[b], Head(todo) \ {b}>> \o Tail(todo)
  PROVE  /\ 1 \in DOMAIN todo' /\ todo'[1] = prog.children[b]
         /\ \A i \in DOMAIN todo' \ {1} : /\ i \in Int /\ i - 1 \in DOMAIN todo
                                          /\ todo'[i] \subseteq todo[i - 1] \ {b}
         /\ \A i \in DOMAIN todo : /\ i \in Int /\ i + 1 \in DOMAIN todo' \ {1}
                                   /\ todo[i] \ {b} \subseteq todo'[i + 1]
         /\ 1 \in DOMAIN todo /\ b \in todo[1]
         /\ DOMAIN todo' \subseteq Int
<1> DEFINE first == <<prog.children[b], Head(todo) \ {b}>>
           rest == Tail(todo)
           all == SUBSET prog.blocks
<1>1. prog \in Programs /\ todo \in Seq(all)
  BY DEF IInv, TypeOK
<1>2. prog.children[b] \in all
  BY <1>1, ChildFacts
<1>3. Head(todo) = todo[1] /\ Head(todo) \in all /\ Len(todo) \in Nat \ {0} /\ DOMAIN todo = 1 .. Len(todo)
  <2> HIDE DEF all
  <2> QED
    BY <1>1
<1>4. Head(todo) \ {b} \in all
  BY <1>3
<1>5. first \in Seq(all) /\ Len(first) = 2 /\ first[1] = prog.children[b] /\ first[2] = Head(todo) \ {b}
  <2>1. first \in Seq(all)
    <3> HIDE DEF all
    <3> QED
      BY <1>2, <1>4, SeqOfTwo
  <2> QED
    BY <2>1
<1>6. rest \in Seq(all) /\ Len(rest) = Len(todo) - 1 /\ \A i \in 1 .. Len(rest) : rest[i] = todo[i + 1]
  <2> HIDE DEF all
  <2> QED
    BY <1>1
<1> HIDE DEF first, rest, all
<1>7. /\ Len(first \o rest) = Len(todo) + 1 /\ DOMAIN (first \o rest) = 1 .. Len(todo) + 1
      /\ \A i \in 1 .. Len(todo) + 1 :
           (first \o rest)[i] = IF i <= 2 THEN first[i] ELSE rest[i - 2]
  <2>1. first \in Seq(all) /\ rest \in Seq(all)
    BY <1>5, <1>6
  <2>2. /\ Len(first \o rest) = Len(first) + Len(rest)
        /\ \A i \in 1 .. Len(first) + Len(rest) :
             (first \o rest)[i] = IF i <= Len(first) THEN first[i] ELSE rest[i - Len(first)]
    BY <2>1
  <2>3. first \o rest \in Seq(all)
    BY <2>1
  <2>4. DOMAIN (first \o rest) = 1 .. Len(first \o rest)
    BY <2>3
  <2>5. Len(first) + Len(rest) = Len(todo) + 1 /\ Len(first) = 2
    BY <1>3, <1>5, <1>6
  <2> QED
    BY <2>2, <2>4, <2>5
<1>8. todo' = first \o rest
  BY DEF first, rest
<1>9. DOMAIN todo' = 1 .. Len(todo) + 1 /\ todo'[1] = prog.children[b] /\ todo'[2] = todo[1] \ {b}
  BY <1>3, <1>5, <1>7, <1>8
<1>10. \A i \in 3 .. Len(todo) + 1 : todo'[i] = todo[i - 1]
  <2> TAKE i \in 3 .. Len(todo) + 1
  <2>1. todo'[i] = rest[i - 2]
    BY <1>3, <1>7, <1>8
  <2>2. i - 2 \in 1 .. Len(rest) /\ (i - 2) + 1 = i - 1
    BY <1>3, <1>6
  <2> QED
    BY <1>6, <2>1, <2>2
<1>11. \A i \in DOMAIN todo \ {1} : b \notin todo[i]
  <2>1. <<b, b>> \in prog.dom
    BY <1>1, DominanceFacts
  <2>2. 1 \in DOMAIN todo
    BY <1>3
  <2>3. SubtreesAreApart /\ b \in todo[1]
    BY <1>3 DEF TreeInv
  <2> QED
    BY <2>1, <2>2, <2>3, Apart
<1>12. \A i \in DOMAIN todo' \ {1} : /\ i \in Int /\ i - 1 \in DOMAIN todo
                                     /\ todo'[i] \subseteq todo[i - 1] \ {b}
  <2> TAKE i \in DOMAIN todo' \ {1}
  <2>1. i \in Int /\ i - 1 \in DOMAIN todo /\ (i = 2 \/ i \in 3 .. Len(todo) + 1)
    BY <1>3, <1>9
  <2>2. CASE i = 2
    BY <1>9, <2>1, <2>2
  <2>3. CASE i \in 3 .. Len(todo) + 1
    <3>1. i - 1 # 1
      BY <1>3, <2>3
    <3> QED
      BY <1>10, <1>11, <2>1, <2>3, <3>1
  <2> QED
    BY <2>1, <2>2, <2>3
<1>13. \A i \in DOMAIN todo : /\ i \in Int /\ i + 1 \in DOMAIN todo' \ {1}
                              /\ todo[i] \ {b} \subseteq todo'[i + 1]
  <2> TAKE i \in DOMAIN todo
  <2>1. i \in Int /\ i + 1 \in DOMAIN todo' \ {1} /\ (i = 1 \/ i + 1 \in 3 .. Len(todo) + 1) /\ (i + 1) - 1 = i
    BY <1>3, <1>9
  <2>2. CASE i = 1
    BY <1>9, <2>1, <2>2
  <2>3. CASE i + 1 \in 3 .. Len(todo) + 1
    <3>1. todo'[i + 1] = todo[(i + 1) - 1]
      BY <1>10, <2>3
    <3> QED
      BY <2>1, <3>1
  <2> QED
    BY <2>1, <2>2, <2>3
<1> QED
  BY <1>3, <1>9, <1>12, <1>13

LEMMA PendingPick ==
  ASSUME IInv, TreeInv, PickBlock, NEW c \in prog.blocks
  PROVE  /\ block' \in prog.blocks /\ Pending(block')
         /\ Pending(c)' <=> Pending(c) /\ c # block'
<1>1. prog \in Programs /\ todo \in Seq(SUBSET prog.blocks)
  BY DEF IInv, TypeOK
<1> DEFINE b == block'
<1>2. /\ b \in Head(todo) /\ todo # <<>> /\ prog' = prog
      /\ todo' = <<prog.children[b], Head(todo) \ {b}>> \o Tail(todo)
  BY DEF PickBlock
<1>3. b \in prog.blocks /\ DOMAIN todo = 1 .. Len(todo) /\ \A i \in DOMAIN todo : todo[i] \subseteq prog.blocks
  <2>1. Head(todo) \in SUBSET prog.blocks
    BY <1>1, <1>2
  <2> QED
    BY <1>1, <1>2, <2>1
<1> HIDE DEF b
<1>4. /\ 1 \in DOMAIN todo' /\ todo'[1] = prog.children[b]
      /\ \A i \in DOMAIN todo' \ {1} : /\ i \in Int /\ i - 1 \in DOMAIN todo
                                       /\ todo'[i] \subseteq todo[i - 1] \ {b}
      /\ \A i \in DOMAIN todo : /\ i \in Int /\ i + 1 \in DOMAIN todo' \ {1}
                                /\ todo[i] \ {b} \subseteq todo'[i + 1]
      /\ 1 \in DOMAIN todo /\ b \in todo[1]
  BY <1>2, <1>3, PickedFacts
<1>5. <<b, b>> \in prog.dom
  BY <1>1, <1>3, DominanceFacts
<1>6. Pending(b)
  BY <1>4, <1>5 DEF Pending
<1>7. ASSUME Pending(c)'
      PROVE  Pending(c) /\ c # b
  <2>1. PICK i \in DOMAIN todo' : \E d \in todo'[i] : <<d, c>> \in prog.dom
    BY <1>2, <1>7 DEF Pending
  <2>2. PICK d \in todo'[i] : <<d, c>> \in prog.dom
    BY <2>1
  <2>3. CASE i = 1
    <3>1. d # b /\ <<b, d>> \in prog.dom /\ d \in prog.blocks
      BY <1>1, <1>3, <1>4, <2>3, ChildFacts
    <3>2. <<b, c>> \in prog.dom
      BY <1>1, <1>3, <2>2, <3>1, DominanceTransitive
    <3>3. c # b
      BY <1>1, <1>3, <2>2, <3>1, DominanceAntisymmetric
    <3> QED
      BY <1>4, <3>2, <3>3 DEF Pending
  <2>4. CASE i # 1
    <3>1. i - 1 \in DOMAIN todo /\ d \in todo[i - 1] /\ d # b
      BY <1>4, <2>4
    <3>2. c # b
      BY <1>3, <1>4, <2>2, <3>1 DEF TreeInv, SubtreesAreApart
    <3> QED
      BY <2>2, <3>1, <3>2 DEF Pending
  <2> QED
    BY <2>3, <2>4
<1>8. ASSUME Pending(c), c # b
      PROVE  Pending(c)'
  <2>1. PICK i \in DOMAIN todo : \E d \in todo[i] : <<d, c>> \in prog.dom
    BY <1>8 DEF Pending
  <2>2. PICK d \in todo[i] : <<d, c>> \in prog.dom
    BY <2>1
  <2>3. CASE d = b
    <3>1. PICK e \in prog.children[b] : <<e, c>> \in prog.dom
      BY <1>1, <1>3, <1>8, <2>2, <2>3, UnderAChild
    <3> QED
      BY <1>2, <1>4, <3>1 DEF Pending
  <2>4. CASE d # b
    <3>1. i + 1 \in DOMAIN todo' /\ d \in todo'[i + 1]
      BY <1>4, <2>4
    <3> QED
      BY <1>2, <2>2, <3>1 DEF Pending
  <2> QED
    BY <2>3, <2>4
<1> QED
  BY <1>3, <1>6, <1>7, <1>8 DEF b

LEMMA TreePick == IInv /\ TreeInv /\ PickBlock => TreeInv'
<1> SUFFICES ASSUME IInv, TreeInv, PickBlock
             PROVE  TreeInv'
  OBVIOUS
<1>1. prog \in Programs /\ todo \in Seq(SUBSET prog.blocks)
  BY DEF IInv, TypeOK
<1> DEFINE b == block'
<1>2. /\ b \in Head(todo) /\ todo # <<>> /\ prog' = prog /\ pc' = "visit"
      /\ todo' = <<prog.children[b], Head(todo) \ {b}>> \o Tail(todo)
  BY DEF PickBlock
<1>3. /\ b \in prog.blocks /\ DOMAIN todo = 1 .. Len(todo)
      /\ \A i \in DOMAIN todo : todo[i] \subseteq prog.blocks
      /\ ~ (\E i \in DOMAIN todo' : \E d \in todo'[i] : <<d, b>> \in prog'.dom)
  <2>1. Head(todo) \in SUBSET prog.blocks
    BY <1>1, <1>2
  <2>2. b \in prog.blocks
    BY <2>1, <1>2
  <2>3. ~ (\E i \in DOMAIN todo' : \E d \in todo'[i] : <<d, b>> \in prog'.dom)
    <3>1. \A c \in prog.blocks : Pending(c)' <=> Pending(c) /\ c # block'
      BY PendingPick
    <3>2. \A c \in prog.blocks :
            (\E i \in DOMAIN todo' : \E d \in todo'[i] : <<d, c>> \in prog'.dom)
              <=> Pending(c) /\ c # block'
      BY <3>1 DEF Pending
    <3> QED
      BY <2>2, <3>2
  <2> QED
    BY <1>1, <2>2, <2>3
<1>4. /\ 1 \in DOMAIN todo' /\ todo'[1] = prog.children[b]
      /\ \A i \in DOMAIN todo' \ {1} : /\ i \in Int /\ i - 1 \in DOMAIN todo
                                       /\ todo'[i] \subseteq todo[i - 1] \ {b}
      /\ 1 \in DOMAIN todo /\ b \in todo[1]
      /\ DOMAIN todo' \subseteq Int
  BY <1>2, <1>3, PickedFacts
<1> HIDE DEF b
<1>41. \A i \in DOMAIN todo : 1 <= i
  BY <1>1, <1>3
<1>5. /\ \A c \in prog.children[b] : /\ c \in prog.blocks /\ c # b /\ <<b, c>> \in prog.dom
                                     /\ \A a \in prog.blocks :
                                          a # c /\ <<a, c>> \in prog.dom => <<a, b>> \in prog.dom
      /\ <<b, b>> \in prog.dom
  BY <1>1, <1>3, ChildFacts, DominanceFacts
<1> DEFINE SharesAbove(i, j, x, y) ==
             \A a \in prog.blocks : i <= j /\ a # y /\ <<a, y>> \in prog.dom => <<a, x>> \in prog.dom
<1>6. ASSUME NEW i \in DOMAIN todo', NEW j \in DOMAIN todo', NEW x \in todo'[i], NEW y \in todo'[j]
      PROVE  /\ <<x, y>> \in prog.dom => x = y /\ i = j
             /\ SharesAbove(i, j, x, y)
             /\ \A a \in prog.blocks : a # y /\ <<a, y>> \in prog.dom => <<a, b>> \in prog.dom
  <2>1. i \in Int /\ j \in Int
    BY <1>4
  <2>2. ASSUME j # 1
        PROVE  /\ y # b /\ y \in todo[j - 1] /\ j - 1 \in DOMAIN todo /\ y \in prog.blocks
               /\ <<b, y>> \notin prog.dom /\ <<y, b>> \notin prog.dom
               /\ \A a \in prog.blocks : a # y /\ <<a, y>> \in prog.dom => <<a, b>> \in prog.dom
    <3>1. y # b /\ y \in todo[j - 1] /\ j - 1 \in DOMAIN todo /\ y \in prog.blocks
      BY <1>3, <1>4, <2>2
    <3>2. 1 <= j - 1
      BY <1>41, <3>1
    <3>3. <<b, y>> \notin prog.dom /\ <<y, b>> \notin prog.dom
      <4>1. SubtreesAreApart /\ 1 \in DOMAIN todo /\ b \in todo[1] /\ b \in prog.blocks
        BY <1>3, <1>4 DEF TreeInv
      <4> QED
        BY <3>1, <4>1, Apart
    <3>4. \A a \in prog.blocks : a # y /\ <<a, y>> \in prog.dom => <<a, b>> \in prog.dom
      BY <1>3, <1>4, <3>1, <3>2 DEF TreeInv, AncestorsAreShared
    <3> QED
      BY <3>1, <3>3, <3>4
  <2>3. ASSUME i # 1
        PROVE  /\ x # b /\ x \in todo[i - 1] /\ i - 1 \in DOMAIN todo /\ x \in prog.blocks
               /\ <<b, x>> \notin prog.dom /\ <<x, b>> \notin prog.dom
    <3>1. x # b /\ x \in todo[i - 1] /\ i - 1 \in DOMAIN todo /\ x \in prog.blocks
      BY <1>3, <1>4, <2>3
    <3> QED
      <4>1. SubtreesAreApart /\ 1 \in DOMAIN todo /\ b \in todo[1] /\ b \in prog.blocks
        BY <1>3, <1>4 DEF TreeInv
      <4> QED
        BY <3>1, <4>1, Apart
  <2>4. CASE i = 1 /\ j = 1
    <3>1. x \in prog.children[b] /\ y \in prog.children[b]
      BY <1>4, <2>4
    <3>2. <<x, y>> \in prog.dom => x = y
      <4> SUFFICES ASSUME <<x, y>> \in prog.dom, x # y PROVE FALSE
        OBVIOUS
      <4>1. <<x, b>> \in prog.dom
        BY <1>5, <3>1
      <4> QED
        BY <1>1, <1>3, <1>5, <3>1, <4>1, DominanceAntisymmetric
    <3>3. ASSUME NEW a \in prog.blocks, a # y, <<a, y>> \in prog.dom
          PROVE  <<a, b>> \in prog.dom /\ <<a, x>> \in prog.dom
      <4>1. <<a, b>> \in prog.dom
        BY <1>5, <3>1, <3>3
      <4> QED
        BY <1>1, <1>3, <1>5, <3>1, <4>1, DominanceTransitive
    <3> QED
      BY <2>4, <3>2, <3>3
  <2>5. CASE i = 1 /\ j # 1
    <3>1. x \in prog.children[b]
      BY <1>4, <2>5
    <3>2. <<x, y>> \notin prog.dom
      <4> SUFFICES ASSUME <<x, y>> \in prog.dom PROVE FALSE
        OBVIOUS
      <4>1. <<b, y>> \in prog.dom
        BY <1>1, <1>3, <1>5, <2>2, <2>5, <3>1, DominanceTransitive
      <4> QED
        BY <2>2, <2>5, <4>1
    <3>3. ASSUME NEW a \in prog.blocks, a # y, <<a, y>> \in prog.dom
          PROVE  <<a, b>> \in prog.dom /\ <<a, x>> \in prog.dom
      <4>1. <<a, b>> \in prog.dom
        BY <2>2, <2>5, <3>3
      <4> QED
        BY <1>1, <1>3, <1>5, <3>1, <4>1, DominanceTransitive
    <3> QED
      BY <3>2, <3>3
  <2>6. CASE i # 1 /\ j = 1
    <3>1. y \in prog.children[b]
      BY <1>4, <2>6
    <3>2. <<x, y>> \notin prog.dom
      <4> SUFFICES ASSUME <<x, y>> \in prog.dom PROVE FALSE
        OBVIOUS
      <4>1. x # y
        BY <1>5, <2>3, <2>6, <3>1
      <4>2. <<x, b>> \in prog.dom
        BY <1>5, <2>3, <2>6, <3>1, <4>1
      <4> QED
        BY <2>3, <2>6, <4>2
    <3>3. ~ (i <= j)
      <4>1. i - 1 \in DOMAIN todo
        BY <2>3, <2>6
      <4>2. 1 <= i - 1
        BY <1>41, <4>1
      <4> QED
        BY <2>1, <2>6, <4>2
    <3> QED
      BY <1>5, <3>1, <3>2, <3>3
  <2>7. CASE i # 1 /\ j # 1
    <3>1. <<x, y>> \in prog.dom => x = y /\ i - 1 = j - 1
      <4>1. SubtreesAreApart
        BY DEF TreeInv
      <4>2. /\ i - 1 \in DOMAIN todo /\ x \in prog.blocks /\ x \in todo[i - 1]
            /\ j - 1 \in DOMAIN todo /\ y \in prog.blocks /\ y \in todo[j - 1]
        BY <2>2, <2>3, <2>7
      <4> QED
        BY <4>1, <4>2, Apart
    <3>2. i - 1 = j - 1 => i = j
      BY <2>1
    <3>3. i <= j => i - 1 <= j - 1
      BY <2>1
    <3>4. \A a \in prog.blocks : i <= j /\ a # y /\ <<a, y>> \in prog.dom => <<a, x>> \in prog.dom
      BY <2>2, <2>3, <2>7, <3>3 DEF TreeInv, AncestorsAreShared
    <3> QED
      BY <2>2, <2>7, <3>1, <3>2, <3>4
  <2> QED
    BY <2>4, <2>5, <2>6, <2>7
<1>7. SubtreesAreApart'
  <2> SUFFICES ASSUME NEW i \in DOMAIN todo', NEW j \in DOMAIN todo',
                      NEW x \in prog.blocks, NEW y \in prog.blocks,
                      x \in todo'[i], y \in todo'[j], <<x, y>> \in prog.dom
               PROVE  x = y /\ i = j
    BY <1>2 DEF SubtreesAreApart
  <2> QED
    BY <1>6
<1>8. AncestorsAreShared'
  <2> SUFFICES ASSUME NEW i \in DOMAIN todo', NEW j \in DOMAIN todo', NEW a \in prog.blocks,
                      NEW x \in prog.blocks, NEW y \in prog.blocks,
                      x \in todo'[i], y \in todo'[j], i <= j, a # y, <<a, y>> \in prog.dom
               PROVE  <<a, x>> \in prog.dom
    BY <1>2 DEF AncestorsAreShared
  <2> HIDE DEF SharesAbove
  <2>1. SharesAbove(i, j, x, y)
    BY <1>6
  <2> QED
    BY <2>1 DEF SharesAbove
<1>9. BlockIsBefore'
  <2>1. \A i \in DOMAIN todo' : \A a, c \in prog.blocks :
          c \in todo'[i] /\ a # c /\ <<a, c>> \in prog.dom => <<a, b>> \in prog.dom
    BY <1>6
  <2> QED
    BY <1>2, <1>3, <2>1 DEF BlockIsBefore, Pending, b
<1> QED
  BY <1>2, <1>7, <1>8, <1>9 DEF TreeInv

LEMMA TreeInit == Init => TreeInv
<1> SUFFICES ASSUME Init
             PROVE  TreeInv
  OBVIOUS
<1>1. todo = <<{prog.entry}>> /\ pc = "pick name"
  BY DEF Init
<1>2. \A i \in DOMAIN todo : i = 1 /\ i <= i /\ todo[i] = {prog.entry}
  <2> DEFINE level == {prog.entry}
  <2>1. todo = <<level>>
    BY <1>1
  <2> HIDE DEF level
  <2>2. DOMAIN <<level>> = 1 .. 1 /\ <<level>>[1] = level
    OBVIOUS
  <2> QED
    BY <2>1, <2>2 DEF level
<1>3. prog \in Programs /\ prog.entry \in prog.blocks
  BY GraphFacts DEF Init
<1>4. SubtreesAreApart
  BY <1>2 DEF SubtreesAreApart
<1>5. AncestorsAreShared
  <2> SUFFICES ASSUME NEW i \in DOMAIN todo, NEW j \in DOMAIN todo, NEW a \in prog.blocks,
                      NEW b \in prog.blocks, NEW c \in prog.blocks, b \in todo[i], c \in todo[j],
                      <<a, c>> \in prog.dom
               PROVE  <<a, b>> \in prog.dom
    BY DEF AncestorsAreShared
  <2> QED
    BY <1>2
<1> QED
  BY <1>1, <1>4, <1>5 DEF TreeInv, BlockIsBefore, Walking

LEMMA TreeStays ==
  ASSUME TreeInv, UNCHANGED <<prog, todo, block>>, Walking' => Walking,
         pc' \in {"pick name", "insert"} => pc \in {"pick name", "insert"}
  PROVE  TreeInv'
<1>0. SubtreesAreApart /\ AncestorsAreShared /\ prog' = prog /\ todo' = todo
  BY DEF TreeInv
<1>1. SubtreesAreApart'
  <2> SUFFICES ASSUME NEW i \in DOMAIN todo, NEW j \in DOMAIN todo,
                      NEW x \in prog.blocks, NEW y \in prog.blocks,
                      x \in todo[i], y \in todo[j], <<x, y>> \in prog.dom
               PROVE  x = y /\ i = j
    BY <1>0 DEF SubtreesAreApart
  <2> QED
    BY <1>0, Apart
<1>3. AncestorsAreShared'
  <2> SUFFICES ASSUME NEW i \in DOMAIN todo, NEW j \in DOMAIN todo, NEW a \in prog.blocks,
                      NEW x \in prog.blocks, NEW y \in prog.blocks,
                      x \in todo[i], y \in todo[j], i <= j, a # y, <<a, y>> \in prog.dom
               PROVE  <<a, x>> \in prog.dom
    BY <1>0 DEF AncestorsAreShared
  <2> QED
    BY <1>0, Shared
<1>2. BlockIsBefore'
  BY DEF TreeInv, BlockIsBefore, Pending
<1> QED
  BY <1>1, <1>2, <1>3 DEF TreeInv

(* The worklist without its first, empty, level.                           *)
LEMMA RestOfTodo ==
  ASSUME IInv, SubtreeDone
  PROVE  /\ \A i \in DOMAIN todo' : /\ i \in Int /\ i + 1 \in Int /\ i + 1 \in DOMAIN todo
                                    /\ todo'[i] = todo[i + 1]
         /\ \A i \in DOMAIN todo : \A b \in todo[i] : /\ i \in Int /\ i - 1 \in DOMAIN todo'
                                                      /\ b \in todo'[i - 1]
<1> DEFINE all == SUBSET prog.blocks
<1>1. todo \in Seq(all) /\ todo # <<>> /\ Head(todo) = {} /\ todo' = Tail(todo)
  BY DEF IInv, TypeOK, SubtreeDone
<1> HIDE DEF all
<1>2. /\ Len(todo) \in Nat \ {0} /\ DOMAIN todo = 1 .. Len(todo) /\ todo[1] = {}
      /\ DOMAIN todo' = 1 .. Len(todo) - 1
      /\ \A i \in 1 .. Len(todo) - 1 : todo'[i] = todo[i + 1]
  BY <1>1
<1>3. ASSUME NEW i \in DOMAIN todo, NEW b \in todo[i]
      PROVE  i \in Int /\ i - 1 \in DOMAIN todo' /\ b \in todo'[i - 1]
  <2>1. i # 1 /\ i \in 1 .. Len(todo)
    BY <1>2
  <2>2. i - 1 \in 1 .. Len(todo) - 1 /\ (i - 1) + 1 = i
    BY <1>2, <2>1
  <2> QED
    BY <1>2, <2>1, <2>2
<1> QED
  BY <1>2, <1>3

LEMMA PendingRest ==
  ASSUME IInv, SubtreeDone, NEW c
  PROVE  Pending(c)' <=> Pending(c)
<1>1. prog' = prog
  BY DEF SubtreeDone
<1>2. ASSUME Pending(c)
      PROVE  Pending(c)'
  <2>1. PICK i \in DOMAIN todo : \E b \in todo[i] : <<b, c>> \in prog.dom
    BY <1>2 DEF Pending
  <2>2. PICK b \in todo[i] : <<b, c>> \in prog.dom
    BY <2>1
  <2>3. i - 1 \in DOMAIN todo' /\ b \in todo'[i - 1]
    BY RestOfTodo
  <2> QED
    BY <1>1, <2>2, <2>3 DEF Pending
<1>3. ASSUME Pending(c)'
      PROVE  Pending(c)
  <2>1. PICK i \in DOMAIN todo' : \E b \in todo'[i] : <<b, c>> \in prog.dom
    BY <1>1, <1>3 DEF Pending
  <2>2. i + 1 \in DOMAIN todo /\ todo'[i] = todo[i + 1]
    BY RestOfTodo
  <2> QED
    BY <2>1, <2>2 DEF Pending
<1> QED
  BY <1>2, <1>3

LEMMA TreeRest == IInv /\ TreeInv /\ SubtreeDone => TreeInv'
<1> SUFFICES ASSUME IInv, TreeInv, SubtreeDone
             PROVE  TreeInv'
  OBVIOUS
<1>1. prog' = prog /\ pc' = "pick block"
  BY DEF SubtreeDone
<1>2. \A i \in DOMAIN todo' : /\ i \in Int /\ i + 1 \in Int /\ i + 1 \in DOMAIN todo
                              /\ todo'[i] = todo[i + 1]
  BY RestOfTodo
<1>3. SubtreesAreApart'
  <2> SUFFICES ASSUME NEW i \in DOMAIN todo', NEW j \in DOMAIN todo',
                      NEW x \in prog.blocks, NEW y \in prog.blocks,
                      x \in todo'[i], y \in todo'[j], <<x, y>> \in prog.dom
               PROVE  x = y /\ i = j
    BY <1>1 DEF SubtreesAreApart
  <2>1. x \in todo[i + 1] /\ y \in todo[j + 1] /\ i + 1 \in DOMAIN todo /\ j + 1 \in DOMAIN todo
    BY <1>2
  <2>2. SubtreesAreApart
    BY DEF TreeInv
  <2>3. x = y /\ i + 1 = j + 1
    BY <2>1, <2>2, Apart
  <2> QED
    BY <1>2, <2>3
<1>4. AncestorsAreShared'
  <2> SUFFICES ASSUME NEW i \in DOMAIN todo', NEW j \in DOMAIN todo', NEW a \in prog.blocks,
                      NEW x \in prog.blocks, NEW y \in prog.blocks,
                      x \in todo'[i], y \in todo'[j], i <= j, a # y, <<a, y>> \in prog.dom
               PROVE  <<a, x>> \in prog.dom
    BY <1>1 DEF AncestorsAreShared
  <2>1. x \in todo[i + 1] /\ y \in todo[j + 1] /\ i + 1 \in DOMAIN todo /\ j + 1 \in DOMAIN todo
    BY <1>2
  <2>2. i + 1 <= j + 1
    BY <1>2
  <2>3. AncestorsAreShared
    BY DEF TreeInv
  <2> QED
    BY <2>1, <2>2, <2>3, Shared
<1>5. BlockIsBefore'
  BY <1>1 DEF BlockIsBefore, Walking
<1> QED
  BY <1>1, <1>3, <1>4, <1>5 DEF TreeInv

LEMMA TreeNext == IInv /\ TreeInv /\ [Next]_vars => TreeInv'
<1> SUFFICES ASSUME IInv, TreeInv, [Next]_vars
             PROVE  TreeInv'
  OBVIOUS
<1>1. CASE PickBlock
  BY <1>1, TreePick
<1>2. CASE SubtreeDone
  BY <1>2, TreeRest
<1>3. CASE PickName \/ InsertPhis \/ NameDone
  <2>1. UNCHANGED <<prog, todo, block>> /\ ~ Walking'
        /\ (pc' \in {"pick name", "insert"} => pc \in {"pick name", "insert"})
    BY <1>3 DEF PickName, InsertPhis, NameDone, walkVars, Walking
  <2> QED
    BY <2>1, TreeStays
<1>4. CASE WalkDone \/ LeaveBlock
  <2>1. UNCHANGED <<prog, todo, block>> /\ ~ Walking' /\ pc' \notin {"pick name", "insert"}
    BY <1>4 DEF WalkDone, LeaveBlock, walkVars, Walking
  <2> QED
    BY <2>1, TreeStays
<1>5. CASE Begin \/ Follow \/ Rename \/ Advance
  <2>1. UNCHANGED <<prog, todo, block>> /\ Walking /\ pc' \notin {"pick name", "insert"}
    BY <1>5 DEF Begin, Follow, Rename, Advance, walkVars, Walking
  <2> QED
    BY <2>1, TreeStays
<1>6. CASE UNCHANGED vars
  <2>1. UNCHANGED <<prog, todo, block, pc>>
    BY <1>6 DEF vars, walkVars
  <2> QED
    BY <2>1, TreeStays DEF Walking
<1> QED
  BY <1>1, <1>2, <1>3, <1>4, <1>5, <1>6 DEF Next, Construct, Walk, Finished

-----------------------------------------------------------------------------
(* The operands and where they are asked for                               *)

(* The operands are those of the source, the incoming values of the PHIs   *)
(* inserted, and what visitPHINode looks up for these.                     *)
SitesAre ==
  \A s \in DOMAIN operand :
    \/ s \in SourceSites(prog)
    \/ \E x \in insertedPhis : \E e \in EdgesInto(prog, x[1]) : s = PhiSite(x[1], x[2], e)
    \/ \E x \in insertedPhis : s = NameSite(x[1], 0, x[2])

AskedByInstruction(s) ==
  \E x \in CodePositions(prog) :
    /\ Point(prog, s) = x
    /\ \E i \in DOMAIN InstructionRequests(x[1], x[2]) : s \in InstructionRequests(x[1], x[2])[i]

AskedByTerminator(s) ==
  \E b \in prog.blocks :
    /\ Point(prog, s) = Terminator(prog, b)
    /\ \E k \in DOMAIN SuccessorRequests(b) : s \in SuccessorRequests(b)[k]

AskedByPhi(s) == \E b \in prog.blocks : Point(prog, s) = <<b, 0>> /\ s \in PhiRequests(b)

LEMMA InstructionAsks ==
  ASSUME prog \in Programs, NEW x \in CodePositions(prog), NEW s,
         \/ Instr(prog, x).obj # Absent /\ s = ObjSite(x[1], x[2])
         \/ Instr(prog, x).in # Absent /\ s = InSite(x[1], x[2])
         \/ Instr(prog, x).op = "ret" /\ \E a \in prog.args : s = NameSite(x[1], x[2], a)
  PROVE  AskedByInstruction(s)
<1> DEFINE ins == Instr(prog, x)
           Obj == IF ins.obj = Absent THEN {} ELSE {ObjSite(x[1], x[2])}
           In == IF ins.in = Absent THEN {} ELSE {InSite(x[1], x[2])}
           Args == {NameSite(x[1], x[2], a) : a \in prog.args}
           all == InstructionRequests(x[1], x[2])
<1>1. x = <<x[1], x[2]>>
  BY CodePositionFacts
<1>2. Point(prog, s) = x
  BY <1>1 DEF Point, ObjSite, InSite, NameSite
<1>3. \/ ins.op = "fold" /\ all = <<In, Obj>>
      \/ ins.op = "ret" /\ all = <<Obj, Args>>
      \/ ins.op \notin {"fold", "ret"} /\ all = <<Obj, In>>
  BY <1>1 DEF InstructionRequests
<1>4. ins.op = "ret" => ins.in = Absent
  BY ProgramsAssumption DEF WellFormed
<1>5. \/ s \in Obj
      \/ s \in In
      \/ ins.op = "ret" /\ s \in Args
  OBVIOUS
<1>6. ins.op = "ret" => s \in Obj \/ s \in Args
  BY <1>4, <1>5
<1> HIDE DEF ins, Obj, In, Args, all
<1>7. 1 \in DOMAIN all /\ 2 \in DOMAIN all
  BY <1>3
<1>8. \/ s \in all[1]
      \/ s \in all[2]
  BY <1>3, <1>5, <1>6
<1>9. \E i \in DOMAIN all : s \in all[i]
  BY <1>7, <1>8
<1> QED
  BY <1>2, <1>9 DEF AskedByInstruction, all

LEMMA TerminatorAsks ==
  ASSUME prog \in Programs, SimpleEdges(prog), NEW t \in prog.blocks, NEW e \in EdgesInto(prog, t),
         NEW n \in DOMAIN prog.phis[t] \cup {m \in Names : <<t, m>> \in insertedPhis}
  PROVE  AskedByTerminator(PhiSite(t, n, e))
<1> DEFINE b == e[1]
           k == e[2]
<1>1. e = <<b, k>> /\ e # Absent
  BY EdgeFacts
<1>2. b \in prog.blocks /\ k \in DOMAIN prog.succ[b] /\ prog.succ[b][k] = t
  BY <1>1 DEF EdgesInto, Edges
<1> HIDE DEF b, k
<1>3. DOMAIN prog.succ[b] = 1 .. Len(prog.succ[b]) /\ Len(prog.succ[b]) \in Nat
  BY <1>2, SuccessorFacts
<1>4. \A j \in 1 .. k - 1 : prog.succ[b][j] # t
  <2> SUFFICES ASSUME NEW j \in 1 .. k - 1, prog.succ[b][j] = t
               PROVE  FALSE
    OBVIOUS
  <2>1. j \in DOMAIN prog.succ[b] /\ j # k
    BY <1>2, <1>3
  <2> QED
    BY <1>2, <2>1 DEF SimpleEdges
<1>5. e \in FirstEdges(b, t)
  BY <1>1, <1>4 DEF FirstEdges
<1>6. PhiSite(t, n, e) \in IncomingSites(b, t)
  BY <1>5 DEF IncomingSites
<1>7. k \in DOMAIN SuccessorRequests(b) /\ SuccessorRequests(b)[k] = IncomingSites(b, t)
  BY <1>2 DEF SuccessorRequests
<1>8. Point(prog, PhiSite(t, n, e)) = Terminator(prog, b)
  BY <1>1 DEF Point, PhiSite
<1> QED
  BY <1>2, <1>6, <1>7, <1>8 DEF AskedByTerminator

LEMMA SiteCases ==
  ASSUME IInv, SitesAre, SimpleEdges(prog), NEW s \in DOMAIN operand
  PROVE  AskedByInstruction(s) \/ AskedByTerminator(s) \/ AskedByPhi(s)
<1>1. prog \in Programs /\ insertedPhis \subseteq prog.blocks \X DefinedNames(prog)
  BY DEF IInv, TypeOK
<1>2. CASE \E x \in CodePositions(prog) :
             \/ Instr(prog, x).obj # Absent /\ s = ObjSite(x[1], x[2])
             \/ Instr(prog, x).in # Absent /\ s = InSite(x[1], x[2])
             \/ Instr(prog, x).op = "ret" /\ \E a \in prog.args : s = NameSite(x[1], x[2], a)
  BY <1>1, <1>2, InstructionAsks
<1>3. CASE \E x \in SourcePhis(prog) : \E e \in EdgesInto(prog, x[1]) : s = PhiSite(x[1], x[2], e)
  <2>1. PICK x \in SourcePhis(prog) : \E e \in EdgesInto(prog, x[1]) : s = PhiSite(x[1], x[2], e)
    BY <1>3
  <2>2. PICK e \in EdgesInto(prog, x[1]) : s = PhiSite(x[1], x[2], e)
    BY <2>1
  <2> QED
    BY <1>1, <2>2, SourcePhiFacts, TerminatorAsks
<1>4. CASE \E x \in insertedPhis : \E e \in EdgesInto(prog, x[1]) : s = PhiSite(x[1], x[2], e)
  <2>1. PICK x \in insertedPhis : \E e \in EdgesInto(prog, x[1]) : s = PhiSite(x[1], x[2], e)
    BY <1>4
  <2>2. PICK e \in EdgesInto(prog, x[1]) : s = PhiSite(x[1], x[2], e)
    BY <2>1
  <2>3. x[1] \in prog.blocks /\ x[2] \in Names /\ <<x[1], x[2]>> \in insertedPhis
    BY <1>1 DEF DefinedNames
  <2> QED
    BY <1>1, <2>2, <2>3, TerminatorAsks
<1>5. CASE \E x \in insertedPhis : s = NameSite(x[1], 0, x[2])
  <2>1. PICK x \in insertedPhis : s = NameSite(x[1], 0, x[2])
    BY <1>5
  <2>2. x[1] \in prog.blocks /\ x[2] \in Names /\ <<x[1], x[2]>> \in insertedPhis
    BY <1>1 DEF DefinedNames
  <2>3. s \in PhiRequests(x[1]) /\ Point(prog, s) = <<x[1], 0>>
    BY <2>1, <2>2 DEF PhiRequests, NameSite, Point
  <2> QED
    BY <2>2, <2>3 DEF AskedByPhi
<1>6. CASE s \in SourceSites(prog)
  BY <1>2, <1>3, <1>6 DEF SourceSites
<1> QED
  BY <1>4, <1>5, <1>6 DEF SitesAre

(* So each operand is asked for at its point, and has a point.             *)
LEMMA SiteIsRequested ==
  ASSUME IInv, SitesAre, SimpleEdges(prog), NEW s \in DOMAIN operand,
         NEW b \in prog.blocks, NEW i \in Int, Point(prog, s) = <<b, i>>
  PROVE  /\ i \in 0 .. Len(prog.code[b]) + 1
         /\ i = 0 => s \in PhiRequests(b)
         /\ 1 <= i /\ i <= Len(prog.code[b]) =>
              \E j \in DOMAIN InstructionRequests(b, i) : s \in InstructionRequests(b, i)[j]
         /\ i = Len(prog.code[b]) + 1 =>
              \E j \in DOMAIN SuccessorRequests(b) : s \in SuccessorRequests(b)[j]
<1>1. prog \in Programs /\ Len(prog.code[b]) \in Nat
  BY CodeLength DEF IInv, TypeOK
<1>2. CASE AskedByInstruction(s)
  <2>1. PICK x \in CodePositions(prog) :
          /\ Point(prog, s) = x
          /\ \E j \in DOMAIN InstructionRequests(x[1], x[2]) : s \in InstructionRequests(x[1], x[2])[j]
    BY <1>2 DEF AskedByInstruction
  <2>2. x[1] = b /\ x[2] = i /\ x[2] \in 1 .. Len(prog.code[x[1]])
    BY <1>1, <2>1, CodePositionFacts
  <2>3. 1 <= i /\ i <= Len(prog.code[b])
    BY <2>2
  <2> QED
    BY <1>1, <2>1, <2>2, <2>3
<1>3. CASE AskedByTerminator(s)
  <2>1. PICK c \in prog.blocks :
          /\ Point(prog, s) = Terminator(prog, c)
          /\ \E k \in DOMAIN SuccessorRequests(c) : s \in SuccessorRequests(c)[k]
    BY <1>3 DEF AskedByTerminator
  <2>2. c = b /\ i = Len(prog.code[b]) + 1
    BY <2>1 DEF Terminator
  <2> QED
    BY <1>1, <2>1, <2>2
<1>4. CASE AskedByPhi(s)
  <2>1. PICK c \in prog.blocks : Point(prog, s) = <<c, 0>> /\ s \in PhiRequests(c)
    BY <1>4 DEF AskedByPhi
  <2>2. c = b /\ i = 0
    BY <2>1
  <2> QED
    BY <1>1, <2>1, <2>2
<1> QED
  BY <1>2, <1>3, <1>4, SiteCases

LEMMA SitePlace ==
  ASSUME IInv, SitesAre, SimpleEdges(prog), NEW s \in DOMAIN operand
  PROVE  \E b \in prog.blocks : \E i \in Int : Point(prog, s) = <<b, i>>
<1>1. prog \in Programs
  BY DEF IInv, TypeOK
<1>2. CASE AskedByInstruction(s)
  <2>1. PICK x \in CodePositions(prog) : Point(prog, s) = x
    BY <1>2 DEF AskedByInstruction
  <2>2. x = <<x[1], x[2]>> /\ x[1] \in prog.blocks /\ x[2] \in 1 .. Len(prog.code[x[1]])
    BY <1>1, CodePositionFacts
  <2> QED
    BY <2>1, <2>2
<1>3. CASE AskedByTerminator(s)
  <2>1. PICK b \in prog.blocks : Point(prog, s) = Terminator(prog, b)
    BY <1>3 DEF AskedByTerminator
  <2>2. Len(prog.code[b]) + 1 \in Int
    BY <1>1, CodeLength
  <2> QED
    BY <2>1, <2>2 DEF Terminator
<1>4. CASE AskedByPhi(s)
  BY <1>4 DEF AskedByPhi
<1> QED
  BY <1>2, <1>3, <1>4, SiteCases

LEMMA IncomingSite ==
  ASSUME NEW c, NEW d, NEW s \in IncomingSites(c, d)
  PROVE  \E n, e : e \in FirstEdges(c, d) /\ s = PhiSite(d, n, e)
<1> DEFINE all == DOMAIN prog.phis[d] \cup {m \in Names : <<d, m>> \in insertedPhis}
           from == FirstEdges(c, d)
<1>1. IncomingSites(c, d) = {PhiSite(d, n, e) : n \in all, e \in from}
  BY DEF IncomingSites
<1> HIDE DEF all, from
<1>2. s \in {PhiSite(d, n, e) : n \in all, e \in from}
  BY <1>1
<1>3. \E n \in all, e \in from : s = PhiSite(d, n, e)
  BY <1>2
<1> QED
  BY <1>3 DEF from

(* What is asked for at a point is used at that point, and asked for once. *)
LEMMA AskedThere ==
  ASSUME prog \in Programs, insertedPhis \subseteq prog.blocks \X DefinedNames(prog),
         SimpleEdges(prog), NEW b \in prog.blocks
  PROVE  /\ \A s \in PhiRequests(b) : Point(prog, s) = <<b, 0>>
         /\ \A i \in 1 .. Len(prog.code[b]) : \A j \in DOMAIN InstructionRequests(b, i) :
              \A s \in InstructionRequests(b, i)[j] :
                /\ Point(prog, s) = <<b, i>>
                /\ \A k \in DOMAIN InstructionRequests(b, i) :
                     s \in InstructionRequests(b, i)[k] => k = j
         /\ \A j \in DOMAIN SuccessorRequests(b) : \A s \in SuccessorRequests(b)[j] :
              /\ Point(prog, s) = Terminator(prog, b)
              /\ \A k \in DOMAIN SuccessorRequests(b) : s \in SuccessorRequests(b)[k] => k = j
<1>1. ASSUME NEW s \in PhiRequests(b)
      PROVE  Point(prog, s) = <<b, 0>>
  <2>1. PICK n \in Names : s = NameSite(b, 0, n)
    BY DEF PhiRequests
  <2> QED
    BY <2>1 DEF Point, NameSite
<1>2. ASSUME NEW i \in 1 .. Len(prog.code[b]), NEW j \in DOMAIN InstructionRequests(b, i),
             NEW s \in InstructionRequests(b, i)[j]
      PROVE  /\ Point(prog, s) = <<b, i>>
             /\ \A k \in DOMAIN InstructionRequests(b, i) :
                  s \in InstructionRequests(b, i)[k] => k = j
  <2> DEFINE ins == Instr(prog, <<b, i>>)
             Obj == IF ins.obj = Absent THEN {} ELSE {ObjSite(b, i)}
             In == IF ins.in = Absent THEN {} ELSE {InSite(b, i)}
             Args == {NameSite(b, i, a) : a \in prog.args}
             all == InstructionRequests(b, i)
  <2>1. all = <<In, Obj>> \/ all = <<Obj, Args>> \/ all = <<Obj, In>>
    BY DEF InstructionRequests
  <2>2. "obj" \notin prog.args /\ "in" \notin prog.args /\ "obj" # "in"
    BY NamesAssumption, ProgramsAssumption DEF WellFormed
  <2>3. (\A u \in Obj : u \notin In) /\ (\A u \in Obj : u \notin Args)
    BY <2>2 DEF ObjSite, InSite, NameSite
  <2>4. \A u \in Obj \cup In \cup Args : Point(prog, u) = <<b, i>>
    BY DEF ObjSite, InSite, NameSite, Point
  <2> HIDE DEF Obj, In, Args, all
  <2>5. DOMAIN all = 1 .. 2
    BY <2>1
  <2>6. /\ \A u \in all[1] : u \notin all[2]
        /\ \A u \in all[1] \cup all[2] : Point(prog, u) = <<b, i>>
    BY <2>1, <2>3, <2>4
  <2>7. j \in 1 .. 2 /\ s \in all[j]
    BY <2>5 DEF all
  <2>8. \A k \in 1 .. 2 : k = 1 \/ k = 2
    OBVIOUS
  <2>9. \A k \in DOMAIN all : s \in all[k] => k = j
    BY <2>5, <2>6, <2>7, <2>8
  <2> QED
    BY <2>6, <2>7, <2>8, <2>9 DEF all
<1>3. ASSUME NEW j \in DOMAIN SuccessorRequests(b), NEW s \in SuccessorRequests(b)[j]
      PROVE  /\ Point(prog, s) = Terminator(prog, b)
             /\ \A k \in DOMAIN SuccessorRequests(b) : s \in SuccessorRequests(b)[k] => k = j
  <2>1. \A k \in DOMAIN SuccessorRequests(b) :
          k \in DOMAIN prog.succ[b] /\ SuccessorRequests(b)[k] = IncomingSites(b, prog.succ[b][k])
    BY DEF SuccessorRequests
  <2>2. ASSUME NEW t \in prog.blocks, NEW u \in IncomingSites(b, t)
        PROVE  u.at[1] = t /\ Point(prog, u) = Terminator(prog, b)
    <3>1. PICK n, e : e \in FirstEdges(b, t) /\ u = PhiSite(t, n, e)
      BY IncomingSite
    <3>2. e \in EdgesInto(prog, t) /\ e[1] = b
      BY <3>1 DEF FirstEdges
    <3>3. e # Absent
      BY <3>2, EdgeFacts
    <3>4. u.at = <<t, 0>> /\ u.edge = e
      BY <3>1 DEF PhiSite
    <3>5. Point(prog, u) = Terminator(prog, e[1])
      BY <3>3, <3>4 DEF Point
    <3> QED
      BY <3>2, <3>4, <3>5
  <2>3. \A k \in DOMAIN prog.succ[b] : prog.succ[b][k] \in prog.blocks
    BY SuccessorFacts DEF SuccSet
  <2>4. Point(prog, s) = Terminator(prog, b) /\ s.at[1] = prog.succ[b][j]
    BY <2>1, <2>2, <2>3
  <2>5. ASSUME NEW k \in DOMAIN SuccessorRequests(b), s \in SuccessorRequests(b)[k]
        PROVE  k = j
    <3>1. s.at[1] = prog.succ[b][k]
      BY <2>1, <2>2, <2>3, <2>5
    <3> QED
      BY <2>1, <2>4, <2>5, <3>1 DEF SimpleEdges
  <2> QED
    BY <2>4, <2>5
<1> QED
  BY <1>1, <1>2, <1>3

LEMMA SitesInit == Init => SitesAre
BY DEF Init, SitesAre

LEMMA SitesNext == IInv /\ SitesAre /\ [Next]_vars => SitesAre'
<1> SUFFICES ASSUME IInv, SitesAre, [Next]_vars
             PROVE  SitesAre'
  OBVIOUS
<1>1. CASE UNCHANGED <<prog, insertedPhis>> /\ DOMAIN operand' = DOMAIN operand
  BY <1>1 DEF SitesAre
<1>2. CASE PickBlock
  <2>1. PICK b \in Head(todo) :
          operand' = [s \in DOMAIN operand \cup PhiRequests(b) |->
                        IF s \in PhiRequests(b) THEN NameValue(prog, s.slot) ELSE operand[s]]
    BY <1>2 DEF PickBlock
  <2>2. UNCHANGED <<prog, insertedPhis>> /\ DOMAIN operand' = DOMAIN operand \cup PhiRequests(b)
    BY <1>2, <2>1 DEF PickBlock, phiVars
  <2>3. ASSUME NEW s \in PhiRequests(b)
        PROVE  \E x \in insertedPhis : s = NameSite(x[1], 0, x[2])
    <3>1. PICK n \in Names : <<b, n>> \in insertedPhis /\ s = NameSite(b, 0, n)
      BY DEF PhiRequests
    <3> DEFINE x == <<b, n>>
    <3>2. x \in insertedPhis /\ s = NameSite(x[1], 0, x[2])
      BY <3>1
    <3> QED
      BY <3>2
  <2> QED
    BY <2>2, <2>3 DEF SitesAre
<1>3. CASE InsertPhis
  <2>1. PICK b \in defWork :
        LET new == {f \in prog.frontier[b] : NeedsPhi(current, f)}
            sites == UNION {{PhiSite(f, current, e) : e \in EdgesInto(prog, f)} : f \in new}
        IN  /\ insertedPhis' = insertedPhis \cup (new \X {current})
            /\ operand' = [s \in DOMAIN operand \cup sites |->
                             IF s \in sites THEN NameValue(prog, current) ELSE operand[s]]
    BY <1>3 DEF InsertPhis
  <2> DEFINE new == {f \in prog.frontier[b] : NeedsPhi(current, f)}
             sites == UNION {{PhiSite(f, current, e) : e \in EdgesInto(prog, f)} : f \in new}
  <2>2. insertedPhis' = insertedPhis \cup (new \X {current}) /\ DOMAIN operand' = DOMAIN operand \cup sites
    BY <2>1
  <2>3. prog' = prog
    BY <1>3 DEF InsertPhis
  <2>4. ASSUME NEW s \in sites
        PROVE  \E x \in insertedPhis' : \E e \in EdgesInto(prog, x[1]) : s = PhiSite(x[1], x[2], e)
    <3>1. PICK f \in new : \E e \in EdgesInto(prog, f) : s = PhiSite(f, current, e)
      OBVIOUS
    <3> DEFINE x == <<f, current>>
    <3>2. x \in insertedPhis' /\ x[1] = f /\ x[2] = current
      BY <2>2
    <3> QED
      BY <3>1, <3>2
  <2> HIDE DEF new, sites
  <2> QED
    BY <2>2, <2>3, <2>4 DEF SitesAre
<1>4. CASE Rename
  <2>1. UNCHANGED <<prog, insertedPhis>> /\ DOMAIN operand' = DOMAIN operand
    BY <1>4 DEF Rename, phiVars
  <2> QED
    BY <1>1, <2>1
<1>5. CASE PickName \/ NameDone \/ SubtreeDone \/ WalkDone \/ Begin \/ Follow \/ Advance \/ LeaveBlock
  <2>1. UNCHANGED <<prog, insertedPhis, operand>>
    BY <1>5 DEF PickName, NameDone, SubtreeDone, WalkDone, Begin, Follow, Advance, LeaveBlock, phiVars
  <2> QED
    BY <1>1, <2>1
<1>6. CASE UNCHANGED vars
  BY <1>1, <1>6 DEF vars, phiVars
<1> QED
  BY <1>2, <1>3, <1>4, <1>5, <1>6 DEF Next, Construct, Walk, Finished

-----------------------------------------------------------------------------
(* The operands asked for at the current point                             *)

IsRequested(s) == \E i \in DOMAIN requests : s \in requests[i]

Asked(s) ==
  \/ IsRequested(s)
  \/ pc = "search" /\ s = site

(* They are used there, and each is asked for once.                        *)
AskedHere ==
  Walking =>
    \A i \in DOMAIN requests : \A s \in requests[i] :
      /\ Point(prog, s) = <<block, idx>>
      /\ \A j \in DOMAIN requests : s \in requests[j] => j = i

SiteIsHere == pc = "search" => Point(prog, site) = <<block, idx>> /\ ~ IsRequested(site)

LEMMA DropEmpty ==
  ASSUME NEW S, NEW q \in Seq(SUBSET S), q # <<>>, Head(q) = {}
  PROVE  /\ \A i \in DOMAIN Tail(q) : /\ i \in Int /\ i + 1 \in DOMAIN q
                                      /\ Tail(q)[i] = q[i + 1]
         /\ \A i \in DOMAIN q : \A x \in q[i] : /\ i - 1 \in DOMAIN Tail(q)
                                                /\ x \in Tail(q)[i - 1]
<1> DEFINE all == SUBSET S
<1>1. q \in Seq(all)
  OBVIOUS
<1> HIDE DEF all
<1>2. /\ Len(q) \in Nat \ {0} /\ DOMAIN q = 1 .. Len(q) /\ q[1] = {}
      /\ DOMAIN Tail(q) = 1 .. Len(q) - 1
      /\ \A i \in 1 .. Len(q) - 1 : Tail(q)[i] = q[i + 1]
  BY <1>1
<1>3. ASSUME NEW i \in DOMAIN q, NEW x \in q[i]
      PROVE  i - 1 \in DOMAIN Tail(q) /\ x \in Tail(q)[i - 1]
  <2>1. i # 1 /\ i \in 1 .. Len(q)
    BY <1>2
  <2>2. i - 1 \in 1 .. Len(q) - 1 /\ (i - 1) + 1 = i
    BY <1>2, <2>1
  <2> QED
    BY <1>2, <2>1, <2>2
<1> QED
  BY <1>2, <1>3

LEMMA DropOne ==
  ASSUME NEW S, NEW q \in Seq(SUBSET S), q # <<>>, NEW s \in Head(q)
  PROVE  LET r == [q EXCEPT ![1] = @ \ {s}] IN
         /\ DOMAIN r = DOMAIN q
         /\ 1 \in DOMAIN q /\ s \in q[1] /\ r[1] = q[1] \ {s}
         /\ \A i \in DOMAIN q \ {1} : r[i] = q[i]
<1> DEFINE all == SUBSET S
<1>1. q \in Seq(all)
  OBVIOUS
<1> HIDE DEF all
<1>2. 1 \in DOMAIN q /\ Head(q) = q[1]
  BY <1>1
<1> QED
  BY <1>2

LEMMA AskedBegin ==
  ASSUME IInv, AskedHere, SiteIsHere, Begin
  PROVE  /\ AskedHere' /\ SiteIsHere'
         /\ \A s : Asked(s)' <=> Asked(s)
<1>1. /\ requests \in Seq(SUBSET DOMAIN operand) /\ requests # <<>> /\ pc = "visit"
      /\ UNCHANGED <<prog, block, idx>>
  BY DEF IInv, TypeOK, Begin, walkVars
<1>2. \A i \in DOMAIN requests : \A s \in requests[i] :
        /\ Point(prog, s) = <<block, idx>>
        /\ \A j \in DOMAIN requests : s \in requests[j] => j = i
  BY <1>1 DEF AskedHere, Walking
<1>3. CASE Head(requests) = {}
  <2>1. requests' = Tail(requests) /\ pc' = "visit"
    BY <1>1, <1>3 DEF Begin
  <2>2. /\ \A i \in DOMAIN requests' : /\ i \in Int /\ i + 1 \in DOMAIN requests
                                       /\ requests'[i] = requests[i + 1]
        /\ \A i \in DOMAIN requests : \A x \in requests[i] : /\ i - 1 \in DOMAIN requests'
                                                             /\ x \in requests'[i - 1]
    BY <1>1, <1>3, <2>1, DropEmpty
  <2>3. ASSUME NEW s
        PROVE  Asked(s)' <=> Asked(s)
    <3>1. Asked(s) => \E i \in DOMAIN requests : s \in requests[i]
      BY <1>1 DEF Asked, IsRequested
    <3>2. Asked(s)' <=> \E i \in DOMAIN requests' : s \in requests'[i]
      BY <2>1 DEF Asked, IsRequested
    <3>3. (\E i \in DOMAIN requests : s \in requests[i]) => Asked(s)
      BY DEF Asked, IsRequested
    <3> QED
      BY <2>2, <3>1, <3>2, <3>3
  <2>4. ASSUME NEW i \in DOMAIN requests', NEW s \in requests'[i]
        PROVE  /\ Point(prog, s) = <<block, idx>>
               /\ \A j \in DOMAIN requests' : s \in requests'[j] => j = i
    <3>1. i \in Int /\ i + 1 \in DOMAIN requests /\ s \in requests[i + 1]
      BY <2>2
    <3>2. ASSUME NEW j \in DOMAIN requests', s \in requests'[j]
          PROVE  j = i
      <4>1. j \in Int /\ j + 1 \in DOMAIN requests /\ s \in requests[j + 1]
        BY <2>2, <3>2
      <4>2. j + 1 = i + 1
        BY <1>2, <3>1, <4>1
      <4> QED
        BY <3>1, <4>1, <4>2
    <3> QED
      BY <1>2, <3>1, <3>2
  <2>5. AskedHere'
    BY <1>1, <2>4 DEF AskedHere
  <2> QED
    BY <2>1, <2>3, <2>5 DEF SiteIsHere
<1>4. CASE Head(requests) # {}
  <2>1. PICK s \in Head(requests) : /\ requests' = [requests EXCEPT ![1] = @ \ {s}]
                                    /\ site' = s /\ pc' = "search"
    BY <1>4 DEF Begin
  <2>2. /\ DOMAIN requests' = DOMAIN requests
        /\ 1 \in DOMAIN requests /\ s \in requests[1] /\ requests'[1] = requests[1] \ {s}
        /\ \A i \in DOMAIN requests \ {1} : requests'[i] = requests[i]
    BY <1>1, <2>1, DropOne
  <2>3. \A i \in DOMAIN requests : \A u : u \in requests'[i] <=> u \in requests[i] /\ u # s
    BY <1>2, <2>2
  <2>4. ASSUME NEW u
        PROVE  Asked(u)' <=> Asked(u)
    <3>1. Asked(u) <=> \E i \in DOMAIN requests : u \in requests[i]
      BY <1>1 DEF Asked, IsRequested
    <3>2. Asked(u)' <=> (\E i \in DOMAIN requests' : u \in requests'[i]) \/ u = s
      BY <2>1 DEF Asked, IsRequested
    <3> QED
      BY <2>2, <2>3, <3>1, <3>2
  <2>5. AskedHere'
    <3>1. ASSUME NEW i \in DOMAIN requests', NEW u \in requests'[i]
          PROVE  /\ Point(prog, u) = <<block, idx>>
                 /\ \A j \in DOMAIN requests' : u \in requests'[j] => j = i
      BY <1>2, <2>2, <2>3
    <3> QED
      BY <1>1, <3>1 DEF AskedHere
  <2>6. SiteIsHere'
    <3>1. Point(prog, s) = <<block, idx>> /\ ~ \E i \in DOMAIN requests' : s \in requests'[i]
      BY <1>2, <2>2, <2>3
    <3> QED
      BY <1>1, <2>1, <3>1 DEF SiteIsHere, IsRequested
  <2> QED
    BY <2>4, <2>5, <2>6
<1> QED
  BY <1>3, <1>4

LEMMA AskedAdvance ==
  ASSUME IInv, SimpleEdges(prog), Advance
  PROVE  AskedHere' /\ SiteIsHere'
<1>1. /\ idx <= Len(prog.code[block]) /\ idx' = idx + 1
      /\ requests' = IF idx < Len(prog.code[block]) THEN InstructionRequests(block, idx + 1)
                                                    ELSE SuccessorRequests(block)
      /\ UNCHANGED <<prog, pc, block>> /\ pc = "visit"
  BY DEF Advance
<1>2. /\ prog \in Programs /\ block \in prog.blocks /\ idx \in Nat /\ Len(prog.code[block]) \in Nat
      /\ insertedPhis \subseteq prog.blocks \X DefinedNames(prog)
  BY CodeLength DEF IInv, TypeOK
<1>3. \A i \in DOMAIN requests' : \A s \in requests'[i] :
        /\ Point(prog, s) = <<block, idx + 1>>
        /\ \A j \in DOMAIN requests' : s \in requests'[j] => j = i
  <2>1. CASE idx < Len(prog.code[block])
    <3>1. idx + 1 \in 1 .. Len(prog.code[block]) /\ requests' = InstructionRequests(block, idx + 1)
      BY <1>1, <1>2, <2>1
    <3> QED
      BY <1>2, <3>1, AskedThere
  <2>2. CASE ~ (idx < Len(prog.code[block]))
    <3>1. idx = Len(prog.code[block]) /\ requests' = SuccessorRequests(block)
      BY <1>1, <1>2, <2>2
    <3>2. Terminator(prog, block) = <<block, idx + 1>>
      BY <3>1 DEF Terminator
    <3> QED
      BY <1>2, <3>1, <3>2, AskedThere
  <2> QED
    BY <2>1, <2>2
<1> QED
  BY <1>1, <1>3 DEF AskedHere, SiteIsHere

LEMMA AskedPick ==
  ASSUME IInv, SimpleEdges(prog), PickBlock
  PROVE  AskedHere' /\ SiteIsHere'
<1>1. PICK b \in Head(todo) : block' = b /\ requests' = <<PhiRequests(b)>>
  BY DEF PickBlock
<1>2. idx' = 0 /\ pc' = "visit" /\ prog' = prog
  BY DEF PickBlock
<1>3. prog \in Programs /\ b \in prog.blocks
  <2>1. todo \in Seq(SUBSET prog.blocks) /\ todo # <<>>
    BY DEF IInv, TypeOK, PickBlock
  <2>2. Head(todo) \in SUBSET prog.blocks
    BY <2>1
  <2> QED
    BY <2>2 DEF IInv, TypeOK
<1>4. \A s \in PhiRequests(b) : Point(prog, s) = <<b, 0>>
  BY <1>3, AskedThere DEF IInv, TypeOK
<1>5. \A i \in DOMAIN requests' : i = 1 /\ requests'[i] = PhiRequests(b)
  <2> DEFINE lookups == PhiRequests(b)
  <2> HIDE DEF lookups
  <2>1. DOMAIN <<lookups>> = 1 .. 1 /\ <<lookups>>[1] = lookups
    OBVIOUS
  <2> QED
    BY <1>1, <2>1 DEF lookups
<1> QED
  BY <1>1, <1>2, <1>4, <1>5 DEF AskedHere, SiteIsHere

LEMMA AskedRest ==
  ASSUME AskedHere, SiteIsHere, UNCHANGED <<prog, block, idx, requests, site>>,
         Walking' => Walking, pc' = "search" => pc = "search"
  PROVE  AskedHere' /\ SiteIsHere'
<1>1. AskedHere'
  BY DEF AskedHere
<1>2. SiteIsHere'
  BY DEF SiteIsHere, IsRequested
<1> QED
  BY <1>1, <1>2

LEMMA AskedNext ==
  IInv /\ SimpleEdges(prog) /\ AskedHere /\ SiteIsHere /\ [Next]_vars => AskedHere' /\ SiteIsHere'
<1> SUFFICES ASSUME IInv, SimpleEdges(prog), AskedHere, SiteIsHere, [Next]_vars
             PROVE  AskedHere' /\ SiteIsHere'
  OBVIOUS
<1>1. CASE PickName \/ InsertPhis \/ NameDone \/ SubtreeDone \/ WalkDone \/ LeaveBlock
  <2>1. ~ Walking' /\ pc' # "search"
    BY <1>1 DEF PickName, InsertPhis, NameDone, SubtreeDone, WalkDone, LeaveBlock, Walking
  <2> QED
    BY <2>1 DEF AskedHere, SiteIsHere
<1>2. CASE Follow \/ Rename
  <2>1. /\ UNCHANGED <<prog, block, idx, requests, site>> /\ pc = "search"
        /\ pc' \in {"search", "visit"}
    BY <1>2 DEF Follow, Rename, walkVars, renameVars
  <2> QED
    BY <2>1, AskedRest DEF Walking
<1>3. CASE UNCHANGED vars
  <2>1. UNCHANGED <<prog, block, idx, requests, site, pc>>
    BY <1>3 DEF vars, walkVars, renameVars
  <2> QED
    BY <2>1, AskedRest DEF Walking
<1> QED
  BY <1>1, <1>2, <1>3, AskedBegin, AskedAdvance, AskedPick DEF Next, Construct, Walk, Finished

-----------------------------------------------------------------------------
(* The versions of a name                                                  *)

LEMMA ObjectFacts ==
  ASSUME NEW p \in Programs, NEW x \in CodePositions(p), Instr(p, x).obj # Absent
  PROVE  /\ ObjSite(x[1], x[2]) \in SourceSites(p)
         /\ Point(p, ObjSite(x[1], x[2])) = x
         /\ NameAt(p, ObjSite(x[1], x[2])) = Instr(p, x).obj
         /\ Instr(p, x).obj \in DefinedNames(p)
         /\ Dominates(p, DefPosition(p, Instr(p, x).obj), x)
<1>1. x = <<x[1], x[2]>>
  BY CodePositionFacts
<1>2. ObjSite(x[1], x[2]) \in SourceSites(p)
  BY DEF SourceSites
<1>3. Point(p, ObjSite(x[1], x[2])) = x
  BY <1>1 DEF Point, ObjSite
<1>4. NameAt(p, ObjSite(x[1], x[2])) = Instr(p, x).obj
  BY <1>1 DEF NameAt, ObjSite
<1> QED
  BY <1>2, <1>3, <1>4, ProgramsAssumption DEF InSSAForm

(* What a version is, and where.                                           *)
LEMMA VersionKinds ==
  ASSUME IInv, NEW v, IsVersion(v)
  PROVE  /\ v.at \in prog.blocks \X Int
         /\ v.of \in DefinedNames(prog)
         /\ v.at[2] <= Len(prog.code[v.at[1]])
         /\ v.kind = "name" => v = NameValue(prog, v.of) /\ v.at = DefPosition(prog, v.of)
         /\ v.kind = "phi" => /\ v = PhiValue(v.at[1], v.of) /\ v.at[2] = 0
                              /\ <<v.at[1], v.of>> \in insertedPhis
         /\ v.kind = "redef" => /\ v = Redefinition(v.of, v.at[1], v.at[2])
                                /\ v.at \in CodePositions(prog) /\ 1 <= v.at[2]
                                /\ Redefines(Instr(prog, v.at)) /\ Instr(prog, v.at).obj = v.of
         /\ v.kind \in {"name", "phi", "redef"}
<1>1. prog \in Programs /\ insertedPhis \subseteq prog.blocks \X DefinedNames(prog)
  BY DEF IInv, TypeOK
<1>2. CASE v.kind = "name"
  <2>1. v.of \in DefinedNames(prog) /\ v = NameValue(prog, v.of)
    BY <1>2 DEF IsVersion
  <2>2. v.at = DefPosition(prog, v.of)
    BY <1>1, <2>1, NameValueFacts
  <2> QED
    BY <1>1, <1>2, <2>1, <2>2, DefPositionFacts
<1>3. CASE v.kind = "phi"
  <2>1. <<v.at[1], v.of>> \in insertedPhis /\ v = PhiValue(v.at[1], v.of)
    BY <1>3 DEF IsVersion
  <2>2. v.at = <<v.at[1], 0>> /\ v.at[1] \in prog.blocks /\ v.of \in DefinedNames(prog)
    BY <1>1, <2>1 DEF PhiValue
  <2>3. Len(prog.code[v.at[1]]) \in Nat
    BY <1>1, <2>2, CodeLength
  <2>4. v.at \in prog.blocks \X Int /\ v.at[2] = 0
    BY <2>2
  <2> QED
    BY <1>3, <2>1, <2>2, <2>3, <2>4
<1>4. CASE v.kind = "redef"
  <2> DEFINE x == v.at
  <2>1. /\ x \in CodePositions(prog) /\ Redefines(Instr(prog, x))
        /\ v = Redefinition(Instr(prog, x).obj, x[1], x[2])
    BY <1>4 DEF IsVersion
  <2>2. v.of = Instr(prog, x).obj
    BY <2>1 DEF Redefinition
  <2>3. Instr(prog, x).obj # Absent
    BY <1>1, <2>1, ProgramsAssumption DEF WellFormed
  <2>4. Instr(prog, x).obj \in DefinedNames(prog)
    BY <1>1, <2>1, <2>3, ObjectFacts
  <2>5. x = <<x[1], x[2]>> /\ x[1] \in prog.blocks /\ x[2] \in 1 .. Len(prog.code[x[1]])
    BY <1>1, <2>1, CodePositionFacts
  <2>6. Len(prog.code[x[1]]) \in Nat
    BY <1>1, <2>5, CodeLength
  <2> HIDE DEF x
  <2>7. x[2] \in Int /\ 1 <= x[2] /\ x[2] <= Len(prog.code[x[1]])
    BY <2>5, <2>6
  <2>8. x \in prog.blocks \X Int
    BY <2>5, <2>7
  <2> USE DEF x
  <2> QED
    BY <1>4, <2>1, <2>2, <2>4, <2>7, <2>8
<1> QED
  BY <1>2, <1>3, <1>4 DEF IsVersion

(* The name is the first of its versions.                                  *)
LEMMA NameFirst ==
  ASSUME IInv, PhisBelow, NEW v, IsVersion(v)
  PROVE  v = NameValue(prog, v.of) \/ Dominates(prog, DefPosition(prog, v.of), v.at)
<1>1. prog \in Programs
  BY DEF IInv, TypeOK
<1>2. CASE v.kind = "phi"
  <2> DEFINE x == <<v.at[1], v.of>>
  <2>1. x \in insertedPhis /\ x[1] = v.at[1] /\ x[2] = v.of /\ v.at = <<v.at[1], 0>>
    BY <1>2, VersionKinds
  <2> HIDE DEF x
  <2> QED
    BY <2>1 DEF PhisBelow
<1>3. CASE v.kind = "redef"
  <2>1. v.at \in CodePositions(prog) /\ Instr(prog, v.at).obj = v.of /\ v.of \in Names
    BY <1>3, VersionKinds DEF DefinedNames
  <2>2. v.of # Absent
    BY <2>1, NamesAssumption
  <2> QED
    BY <1>1, <2>1, <2>2, ObjectFacts
<1> QED
  BY <1>2, <1>3, VersionKinds

(* Of the versions whose definition dominates a point, v is the nearest    *)
(* when none comes between.                                                *)
Upto(w, v) == w = v \/ Dominates(prog, w.at, v.at)

NoneNearer(v, x) ==
  \A w : IsVersion(w) /\ w.of = v.of /\ Dominates(prog, w.at, x) => Upto(w, v)

LEMMA Nearest ==
  ASSUME NEW v, NEW x, NoneNearer(v, x), NEW w, IsVersion(w), w.of = v.of, Dominates(prog, w.at, x)
  PROVE  w = v \/ Dominates(prog, w.at, v.at)
BY DEF NoneNearer, Upto

LEMMA NearestIntro ==
  ASSUME NEW v, NEW x,
         \A w : IsVersion(w) /\ w.of = v.of /\ Dominates(prog, w.at, x) =>
                  w = v \/ Dominates(prog, w.at, v.at)
  PROVE  NoneNearer(v, x)
BY DEF NoneNearer, Upto

LEMMA NearestStays ==
  ASSUME UNCHANGED <<prog, insertedPhis>>
  PROVE  \A v, x : NoneNearer(v, x)' <=> NoneNearer(v, x)
<1>1. \A v : IsVersion(v)' <=> IsVersion(v)
  BY DEF IsVersion
<1>2. \A v, x : NoneNearer(v, x)'
                  <=> \A w : IsVersion(w)' /\ w.of = v.of /\ Dominates(prog, w.at, x) =>
                               w = v \/ Dominates(prog, w.at, v.at)
  BY DEF NoneNearer, Upto
<1>3. \A v, x : NoneNearer(v, x)
                  <=> \A w : IsVersion(w) /\ w.of = v.of /\ Dominates(prog, w.at, x) =>
                               w = v \/ Dominates(prog, w.at, v.at)
  BY DEF NoneNearer, Upto
<1> QED
  BY <1>1, <1>2, <1>3

(* A version is the nearest where it is defined.                           *)
LEMMA NearestAtOwn == \A v : NoneNearer(v, v.at)
BY DEF NoneNearer, Upto

-----------------------------------------------------------------------------
(* The invariant of the walk                                               *)

(* The operands the walk is yet to rename.                                 *)
Ahead(s) ==
  \/ pc \in {"pick name", "insert"}
  \/ Pending(Point(prog, s)[1])
  \/ /\ Walking
     /\ Point(prog, s)[1] = block
     /\ Point(prog, s)[2] > idx \/ Asked(s)

(* They hold their names; the others the nearest version.                  *)
AheadAreNames == \A s \in DOMAIN operand : Ahead(s) => operand[s].kind = "name"

RenamedToNearest ==
  \A s \in DOMAIN operand : ~ Ahead(s) => NoneNearer(operand[s], Point(prog, s))

(* The map leads from a name to its nearest version at the current point,  *)
(* and, between two blocks, at the beginning of each block that may be     *)
(* next; from another version to the nearest where that is defined.        *)
NamesReachHere ==
  Walking => \A n \in DefinedNames(prog) :
               NoneNearer(reaching[NameValue(prog, n)], <<block, idx>>)

NamesReachNext ==
  pc = "pick block" =>
    \A i \in DOMAIN todo : \A b \in todo[i] : \A n \in DefinedNames(prog) :
      NoneNearer(reaching[NameValue(prog, n)], <<b, 0>>)

ChainsAreTight == \A v \in DOMAIN reaching : v.kind # "name" => NoneNearer(reaching[v], v.at)

(* The search passes no version that it should stop at.                    *)
SearchIsTight == pc = "search" => NoneNearer(NextProbe, <<block, idx>>)

(* A PHI that was looked up reaches its block.                             *)
PhisReach ==
  Walking /\ idx = 0 =>
    \A n \in DefinedNames(prog) :
      <<block, n>> \in insertedPhis /\ ~ Asked(NameSite(block, 0, n))
        => reaching[NameValue(prog, n)] = PhiValue(block, n)

(* Before the walk each name reaches itself.                               *)
NamesReachThemselves ==
  pc \in {"pick name", "insert"} =>
    \A v \in DOMAIN reaching : reaching[v] = v /\ v.kind = "name"

WalkInv ==
  /\ AheadAreNames
  /\ RenamedToNearest
  /\ NamesReachHere
  /\ NamesReachNext
  /\ ChainsAreTight
  /\ SearchIsTight
  /\ PhisReach
  /\ NamesReachThemselves

(* All that the steps of the walk rest on.                                 *)
WInv ==
  /\ IInv /\ PhisBelow /\ TreeInv /\ SitesAre /\ AskedHere /\ SiteIsHere
  /\ SimpleEdges(prog)
  /\ WalkInv

LEMMA PointFacts ==
  ASSUME WInv, NEW s \in DOMAIN operand
  PROVE  /\ Point(prog, s) = <<Point(prog, s)[1], Point(prog, s)[2]>>
         /\ Point(prog, s)[1] \in prog.blocks
         /\ Point(prog, s)[2] \in 0 .. Len(prog.code[Point(prog, s)[1]]) + 1
         /\ Point(prog, s)[2] \in Int
<1>1. IInv /\ SitesAre /\ SimpleEdges(prog)
  BY DEF WInv
<1>2. PICK b \in prog.blocks, i \in Int : Point(prog, s) = <<b, i>>
  BY <1>1, SitePlace
<1>3. i \in 0 .. Len(prog.code[b]) + 1
  BY <1>1, <1>2, SiteIsRequested
<1> QED
  BY <1>2, <1>3

LEMMA WalkInit == Init => WalkInv
<1> SUFFICES ASSUME Init
             PROVE  WalkInv
  OBVIOUS
<1>1. pc = "pick name" /\ prog \in Programs
  BY DEF Init
<1>2. reaching = [v \in {NameValue(prog, n) : n \in DefinedNames(prog)} |-> v]
      /\ operand = [s \in SourceSites(prog) |-> NameValue(prog, NameAt(prog, s))]
  BY DEF Init
<1>3. \A v \in DOMAIN reaching : reaching[v] = v /\ v.kind = "name"
  BY <1>2 DEF NameValue
<1>4. \A s \in DOMAIN operand : operand[s].kind = "name"
  BY <1>2 DEF NameValue
<1> QED
  BY <1>1, <1>3, <1>4
     DEF WalkInv, AheadAreNames, RenamedToNearest, Ahead, NamesReachHere, NamesReachNext,
         ChainsAreTight, SearchIsTight, PhisReach, NamesReachThemselves, Walking

LEMMA OfOne == ASSUME NEW x PROVE /\ 1 \in DOMAIN <<x>> /\ <<x>>[1] = x
                                  /\ \A i \in DOMAIN <<x>> : i = 1
OBVIOUS

LEMMA Negative == ASSUME NEW i \in Int, i < 0 PROVE i # 0 /\ ~ (1 <= i)
OBVIOUS

LEMMA NearestThen ==
  ASSUME UNCHANGED <<prog, insertedPhis>>, NEW v, NEW x, NoneNearer(v, x)
  PROVE  NoneNearer(v, x)'
BY NearestStays

LEMMA TightRest ==
  ASSUME ChainsAreTight, UNCHANGED <<prog, insertedPhis, reaching>>
  PROVE  ChainsAreTight'
<1> SUFFICES ASSUME NEW v \in DOMAIN reaching, v.kind # "name"
             PROVE  NoneNearer(reaching[v], v.at)'
  BY DEF ChainsAreTight
<1>1. PICK u : u = reaching[v]
  OBVIOUS
<1>2. NoneNearer(u, v.at)
  BY <1>1 DEF ChainsAreTight
<1> QED
  BY <1>1, <1>2, NearestThen

(* A step that renames nothing and leaves the same operands ahead.         *)
LEMMA OperandsRest ==
  ASSUME AheadAreNames, RenamedToNearest, UNCHANGED <<prog, insertedPhis, operand>>,
         \A s \in DOMAIN operand : Ahead(s)' <=> Ahead(s)
  PROVE  AheadAreNames' /\ RenamedToNearest'
<1>1. AheadAreNames'
  BY DEF AheadAreNames
<1>2. ASSUME NEW s \in DOMAIN operand', ~ Ahead(s)'
      PROVE  NoneNearer(operand[s], Point(prog, s))'
  <2>1. PICK v, x : v = operand[s] /\ x = Point(prog, s)
    OBVIOUS
  <2>2. NoneNearer(v, x)
    BY <1>2, <2>1 DEF RenamedToNearest
  <2> QED
    BY <2>1, <2>2, NearestThen
<1> QED
  BY <1>1, <1>2 DEF RenamedToNearest

(* What is ahead once a step is taken, of an operand used at q.            *)
LEMMA AheadThen ==
  ASSUME NEW s, NEW q, Point(prog', s) = q
  PROVE  Ahead(s)' <=> \/ pc' \in {"pick name", "insert"}
                       \/ Pending(q[1])'
                       \/ /\ Walking'
                          /\ q[1] = block'
                          /\ q[2] > idx' \/ Asked(s)'
BY DEF Ahead

LEMMA EntryDominated ==
  ASSUME NEW p \in Programs, NEW a \in p.blocks, <<a, p.entry>> \in p.dom
  PROVE  a = p.entry
<1>1. p.entry \in p.blocks /\ <<p.entry, a>> \in p.dom
  BY GraphFacts, DominanceFacts
<1> QED
  BY <1>1, DominanceAntisymmetric

-----------------------------------------------------------------------------
(* Each step of the walk                                                   *)

LEMMA WalkEarly ==
  ASSUME WInv, PickName \/ InsertPhis \/ (NameDone /\ pc' = "pick name")
  PROVE  WalkInv'
<1>1. /\ pc \in {"pick name", "insert"} /\ pc' \in {"pick name", "insert"} /\ reaching' = reaching
      /\ prog' = prog
  BY DEF PickName, InsertPhis, NameDone
<1>2. \A s \in DOMAIN operand : operand[s].kind = "name"
  BY <1>1 DEF WInv, WalkInv, AheadAreNames, Ahead
<1>3. \A s \in DOMAIN operand' : operand'[s].kind = "name"
  <2>1. CASE operand' = operand
    BY <1>2, <2>1
  <2>2. CASE InsertPhis
    <3>1. PICK b \in defWork :
          LET new == {f \in prog.frontier[b] : NeedsPhi(current, f)}
              sites == UNION {{PhiSite(f, current, e) : e \in EdgesInto(prog, f)} : f \in new}
          IN  operand' = [s \in DOMAIN operand \cup sites |->
                            IF s \in sites THEN NameValue(prog, current) ELSE operand[s]]
      BY <2>2 DEF InsertPhis
    <3> DEFINE new == {f \in prog.frontier[b] : NeedsPhi(current, f)}
               sites == UNION {{PhiSite(f, current, e) : e \in EdgesInto(prog, f)} : f \in new}
    <3>2. operand' = [s \in DOMAIN operand \cup sites |->
                        IF s \in sites THEN NameValue(prog, current) ELSE operand[s]]
      BY <3>1
    <3> HIDE DEF new, sites
    <3> QED
      BY <1>2, <3>2 DEF NameValue
  <2> QED
    BY <2>1, <2>2 DEF PickName, NameDone
<1>4. \A v \in DOMAIN reaching : reaching[v] = v /\ v.kind = "name"
  BY <1>1 DEF WInv, WalkInv, NamesReachThemselves
<1> QED
  BY <1>1, <1>3, <1>4
     DEF WalkInv, AheadAreNames, RenamedToNearest, Ahead, NamesReachHere, NamesReachNext,
         ChainsAreTight, SearchIsTight, PhisReach, NamesReachThemselves, Walking

(* The walk begins at the entry, which only arguments reach.               *)
LEMMA WalkStart ==
  ASSUME WInv, NameDone, pc' = "pick block"
  PROVE  WalkInv'
<1>1. /\ pc = "insert"
      /\ UNCHANGED <<prog, insertedPhis, todo, operand, reaching>>
  BY DEF NameDone, phiVars, walkVars
<1>2. IInv /\ prog \in Programs /\ prog.entry \in prog.blocks
  BY GraphFacts DEF WInv, IInv, TypeOK
<1>3. todo = <<{prog.entry}>>
  BY <1>1 DEF WInv, TreeInv
<1>4. /\ 1 \in DOMAIN todo /\ todo[1] = {prog.entry}
      /\ \A i \in DOMAIN todo : i = 1
  BY <1>3, OfOne
<1>5. \A c \in prog.blocks : Pending(c)'
  <2>2. \A c \in prog.blocks : <<prog.entry, c>> \in prog.dom
    BY <1>2, DominanceFacts
  <2> QED
    BY <1>1, <1>4, <2>2 DEF Pending
<1>6. \A s \in DOMAIN operand : Ahead(s)'
  <2> TAKE s \in DOMAIN operand
  <2>1. PICK q : q = Point(prog, s)
    OBVIOUS
  <2>2. q[1] \in prog.blocks
    BY <2>1, PointFacts
  <2> QED
    BY <1>1, <1>5, <2>1, <2>2, AheadThen
<1>7. \A s \in DOMAIN operand : operand[s].kind = "name"
  BY <1>1 DEF WInv, WalkInv, AheadAreNames, Ahead
<1>8. ASSUME NEW n \in DefinedNames(prog)
      PROVE  /\ reaching[NameValue(prog, n)] = NameValue(prog, n)
             /\ NoneNearer(NameValue(prog, n), <<prog.entry, 0>>)
  <2>1. NameValue(prog, n) \in DOMAIN reaching /\ NameValue(prog, n).of = n
    BY <1>2, NameValueFacts DEF IInv, ChainInv
  <2>2. ASSUME NEW w, IsVersion(w), w.of = n, Dominates(prog, w.at, <<prog.entry, 0>>)
        PROVE  w = NameValue(prog, n)
    <3>1. w.at \in prog.blocks \X Int
      BY <1>2, <2>2, VersionKinds
    <3>2. w.at[1] = prog.entry /\ w.at[2] < 0
      BY <1>2, <2>2, <3>1, EntryDominated DEF Dominates
    <3>3. w.kind # "phi" /\ w.kind # "redef"
      <4>1. w.at[2] # 0 /\ ~ (1 <= w.at[2])
        BY <3>1, <3>2, Negative
      <4> QED
        BY <1>2, <2>2, <4>1, VersionKinds DEF WInv
    <3> QED
      BY <1>2, <2>2, <3>3, VersionKinds
  <2>3. NoneNearer(NameValue(prog, n), <<prog.entry, 0>>)
    BY <2>1, <2>2 DEF NoneNearer, Upto
  <2> QED
    BY <1>1, <2>1, <2>3 DEF WInv, WalkInv, NamesReachThemselves
<1>9. NamesReachNext'
  <2> SUFFICES ASSUME NEW i \in DOMAIN todo, NEW b \in todo[i], NEW n \in DefinedNames(prog)
               PROVE  NoneNearer(reaching[NameValue(prog, n)], <<b, 0>>)'
    BY <1>1 DEF NamesReachNext
  <2>1. PICK v : v = reaching[NameValue(prog, n)]
    OBVIOUS
  <2>2. NoneNearer(v, <<b, 0>>)
    BY <1>4, <1>8, <2>1
  <2> QED
    BY <1>1, <2>1, <2>2, NearestThen
<1>10. ChainsAreTight'
  BY <1>1, TightRest DEF WInv, WalkInv
<1>11. AheadAreNames' /\ RenamedToNearest'
  BY <1>1, <1>6, <1>7 DEF AheadAreNames, RenamedToNearest
<1> QED
  BY <1>9, <1>10, <1>11
     DEF WalkInv, NamesReachHere, SearchIsTight, PhisReach, NamesReachThemselves, Walking

LEMMA WalkSubtree == WInv /\ SubtreeDone => WalkInv'
<1> SUFFICES ASSUME WInv, SubtreeDone
             PROVE  WalkInv'
  OBVIOUS
<1>1. /\ pc = "pick block" /\ pc' = "pick block"
      /\ UNCHANGED <<prog, insertedPhis, block, idx, requests, site, probe, operand, reaching>>
  BY DEF SubtreeDone, phiVars, renameVars
<1>2. IInv
  BY DEF WInv
<1>3. \A s \in DOMAIN operand : Ahead(s)' <=> Ahead(s)
  <2> TAKE s \in DOMAIN operand
  <2>1. PICK q : q = Point(prog, s)
    OBVIOUS
  <2>2. Ahead(s)' <=> Pending(q[1])'
    BY <1>1, <2>1, AheadThen DEF Walking
  <2>3. Ahead(s) <=> Pending(q[1])
    BY <1>1, <2>1 DEF Ahead, Walking
  <2> QED
    BY <1>2, <2>2, <2>3, PendingRest
<1>4. AheadAreNames' /\ RenamedToNearest'
  BY <1>1, <1>3, OperandsRest DEF WInv, WalkInv
<1>5. ChainsAreTight'
  BY <1>1, TightRest DEF WInv, WalkInv
<1>6. NamesReachNext'
  <2> SUFFICES ASSUME NEW i \in DOMAIN todo', NEW b \in todo'[i], NEW n \in DefinedNames(prog)
               PROVE  NoneNearer(reaching[NameValue(prog, n)], <<b, 0>>)'
    BY <1>1 DEF NamesReachNext
  <2>1. PICK v : v = reaching[NameValue(prog, n)]
    OBVIOUS
  <2>2. i + 1 \in DOMAIN todo /\ b \in todo[i + 1]
    BY <1>2, RestOfTodo
  <2>3. NoneNearer(v, <<b, 0>>)
    BY <1>1, <2>1, <2>2 DEF WInv, WalkInv, NamesReachNext
  <2> QED
    BY <1>1, <2>1, <2>3, NearestThen
<1> QED
  BY <1>1, <1>4, <1>5, <1>6
     DEF WalkInv, NamesReachHere, SearchIsTight, PhisReach, NamesReachThemselves, Walking

LEMMA WalkEnd == WInv /\ WalkDone => WalkInv'
<1> SUFFICES ASSUME WInv, WalkDone
             PROVE  WalkInv'
  OBVIOUS
<1>1. /\ pc = "pick block" /\ pc' = "done"
      /\ UNCHANGED <<prog, insertedPhis, todo, operand, reaching>>
  BY DEF WalkDone, phiVars, walkVars
<1>2. \A s \in DOMAIN operand : Ahead(s)' <=> Ahead(s)
  <2> TAKE s \in DOMAIN operand
  <2>1. PICK q : q = Point(prog, s)
    OBVIOUS
  <2>2. Ahead(s)' <=> Pending(q[1])'
    BY <1>1, <2>1, AheadThen DEF Walking
  <2>3. Ahead(s) <=> Pending(q[1])
    BY <1>1, <2>1 DEF Ahead, Walking
  <2>4. Pending(q[1])' <=> Pending(q[1])
    BY <1>1 DEF Pending
  <2> QED
    BY <2>2, <2>3, <2>4
<1>3. AheadAreNames' /\ RenamedToNearest'
  BY <1>1, <1>2, OperandsRest DEF WInv, WalkInv
<1>4. ChainsAreTight'
  BY <1>1, TightRest DEF WInv, WalkInv
<1> QED
  BY <1>1, <1>3, <1>4
     DEF WalkInv, NamesReachHere, NamesReachNext, SearchIsTight, PhisReach,
         NamesReachThemselves, Walking

LEMMA PastTheEnd ==
  ASSUME NEW j \in Nat, NEW i \in 0 .. j + 1, i > j
  PROVE  i \in Int /\ ~ (i <= j) /\ i = j + 1
OBVIOUS

LEMMA WithinBlock ==
  ASSUME NEW j \in Nat, NEW i \in 0 .. j + 1
  PROVE  ~ (i > j + 1)
OBVIOUS

LEMMA BeforeTheEnd ==
  ASSUME NEW j \in Nat, NEW i \in Int, i <= j
  PROVE  i < j + 1
OBVIOUS

LEMMA PositionCases ==
  ASSUME NEW p, NEW n, NEW x \in DefPositions(p, n)
  PROVE  \/ n \in p.args /\ x = <<p.entry, -1>>
         \/ x[2] = 0 /\ \E b \in p.blocks : x = <<b, 0>> /\ <<b, n>> \in SourcePhis(p)
         \/ x \in CodePositions(p) /\ Instr(p, x).def = n
<1>1. CASE \E m \in p.args \cap {n} : x = <<p.entry, -1>>
  BY <1>1
<1>2. CASE \E b \in {c \in p.blocks : <<c, n>> \in SourcePhis(p)} : x = <<b, 0>>
  BY <1>2
<1>3. CASE x \in {y \in CodePositions(p) : Instr(p, y).def = n}
  BY <1>3
<1> QED
  BY <1>1, <1>2, <1>3 DEF DefPositions

LEMMA NothingAsked ==
  ASSUME requests = <<>>, pc # "search", NEW s
  PROVE  ~ Asked(s)
<1>1. DOMAIN <<>> = {}
  OBVIOUS
<1>2. \A i \in DOMAIN requests : FALSE
  BY <1>1
<1> QED
  BY <1>2 DEF Asked, IsRequested

LEMMA NamesAreVersions ==
  ASSUME IInv, NEW n \in DefinedNames(prog)
  PROVE  /\ NameValue(prog, n) \in DOMAIN reaching
         /\ NameValue(prog, n).of = n /\ NameValue(prog, n).kind = "name"
         /\ NameValue(prog, n).at = DefPosition(prog, n)
         /\ reaching[NameValue(prog, n)].of = n
         /\ reaching[NameValue(prog, n)] \in DOMAIN reaching
         /\ IsVersion(reaching[NameValue(prog, n)])
<1>1. prog \in Programs
  BY DEF IInv, TypeOK
<1>2. NameValue(prog, n) \in DOMAIN reaching
  BY DEF IInv, ChainInv
<1> QED
  BY <1>1, <1>2, NameValueFacts DEF IInv, ChainInv

(* What was nearest at the end of the block left is nearest at the         *)
(* beginning of each block that may be next.                               *)
LEMMA WalkLeave == WInv /\ LeaveBlock => WalkInv'
<1> SUFFICES ASSUME WInv, LeaveBlock
             PROVE  WalkInv'
  OBVIOUS
<1>1. IInv /\ TreeInv /\ prog \in Programs /\ block \in prog.blocks
  BY DEF WInv, IInv, TypeOK
<1>2. PICK last \in Nat : last = Len(prog.code[block])
  BY <1>1, CodeLength
<1>20. idx \in 0 .. last + 1 /\ idx > last
  BY <1>2 DEF WInv, IInv, TypeOK, LeaveBlock
<1>21. idx \in Int /\ ~ (idx <= last) /\ idx = last + 1
  BY <1>20, PastTheEnd
<1>22. /\ pc = "visit" /\ pc' = "pick block" /\ requests = <<>>
       /\ UNCHANGED <<prog, insertedPhis, todo, block, idx, requests, site, probe, operand, reaching>>
  BY DEF LeaveBlock, phiVars, walkVars, renameVars
<1>3. ~ Pending(block)
      /\ \A i \in DOMAIN todo : \A a, c \in prog.blocks :
           c \in todo[i] /\ a # c /\ <<a, c>> \in prog.dom => <<a, block>> \in prog.dom
  BY <1>22 DEF WInv, TreeInv, BlockIsBefore, Walking
<1>4. \A s \in DOMAIN operand : Ahead(s)' <=> Ahead(s)
  <2> TAKE s \in DOMAIN operand
  <2>1. PICK q : q = Point(prog, s)
    OBVIOUS
  <2>2. Ahead(s)' <=> Pending(q[1])'
    BY <1>22, <2>1, AheadThen DEF Walking
  <2>3. Pending(q[1])' <=> Pending(q[1])
    BY <1>22 DEF Pending
  <2>4. ~ (q[1] = block /\ q[2] > idx)
    <3>1. q[2] \in 0 .. Len(prog.code[q[1]]) + 1
      BY <2>1, PointFacts
    <3>2. q[1] = block => q[2] \in 0 .. last + 1
      BY <1>2, <3>1
    <3>3. q[1] = block => ~ (q[2] > last + 1)
      BY <3>2, WithinBlock
    <3> QED
      BY <1>21, <3>3
  <2>5. ~ Asked(s)
    BY <1>22, NothingAsked
  <2>6. Ahead(s) <=> Pending(q[1])
    BY <1>22, <2>1, <2>4, <2>5 DEF Ahead
  <2> QED
    BY <2>2, <2>3, <2>6
<1>5. AheadAreNames' /\ RenamedToNearest'
  BY <1>22, <1>4, OperandsRest DEF WInv, WalkInv
<1>6. ChainsAreTight'
  BY <1>22, TightRest DEF WInv, WalkInv
<1>7. NamesReachNext'
  <2> SUFFICES ASSUME NEW i \in DOMAIN todo, NEW b \in todo[i], NEW n \in DefinedNames(prog)
               PROVE  NoneNearer(reaching[NameValue(prog, n)], <<b, 0>>)'
    BY <1>22 DEF NamesReachNext
  <2>1. PICK v : v = reaching[NameValue(prog, n)]
    OBVIOUS
  <2>2. NoneNearer(v, <<block, idx>>)
    BY <1>22, <2>1 DEF WInv, WalkInv, NamesReachHere, Walking
  <2>3. b \in prog.blocks
    BY <1>1 DEF IInv, TypeOK
  <2>4. <<b, b>> \in prog.dom /\ b # prog.entry /\ b # block
    <3>1. <<b, b>> \in prog.dom
      BY <1>1, <2>3, DominanceFacts
    <3>2. Pending(b)
      BY <3>1 DEF Pending
    <3>3. b = prog.entry => Pending(block)
      <4>1. <<prog.entry, block>> \in prog.dom
        BY <1>1, GraphFacts, DominanceFacts
      <4> QED
        BY <4>1 DEF Pending
    <3> QED
      BY <1>3, <3>1, <3>2, <3>3
  <2>5. ASSUME NEW w, IsVersion(w), w.of = v.of, Dominates(prog, w.at, <<b, 0>>)
        PROVE  w = v \/ Dominates(prog, w.at, v.at)
    <3>1. /\ w.at \in prog.blocks \X Int /\ w.at[1] \in prog.blocks /\ w.at[2] \in Int
          /\ w.at[2] <= Len(prog.code[w.at[1]])
      BY <1>1, <2>5, VersionKinds
    <3>2. w.at[1] # b
      <4> SUFFICES ASSUME w.at[1] = b
                   PROVE  FALSE
        OBVIOUS
      <4>1. w.at[2] < 0
        BY <2>5 DEF Dominates
      <4>2. w.at[2] # 0 /\ ~ (1 <= w.at[2])
        BY <3>1, <4>1, Negative
      <4>3. w.at = DefPosition(prog, w.of) /\ w.of \in DefinedNames(prog)
        BY <1>1, <2>5, <4>2, VersionKinds
      <4>4. w.at \in DefPositions(prog, w.of)
        BY <1>1, <4>3, DefPositionFacts
      <4>5. w.at \notin CodePositions(prog)
        <5>1. \A x \in CodePositions(prog) : 1 <= x[2]
          <6> TAKE x \in CodePositions(prog)
          <6>1. x[1] \in prog.blocks /\ x[2] \in 1 .. Len(prog.code[x[1]])
            BY <1>1, CodePositionFacts
          <6>2. Len(prog.code[x[1]]) \in Nat
            BY <1>1, <6>1, CodeLength
          <6> QED
            BY <6>1, <6>2
        <5> QED
          BY <4>2, <5>1
      <4>6. w.at = <<prog.entry, -1>>
        BY <4>2, <4>4, <4>5, PositionCases
      <4> QED
        BY <2>4, <4>6
    <3>3. <<w.at[1], block>> \in prog.dom
      <4>1. <<w.at[1], b>> \in prog.dom
        BY <2>5, <3>2 DEF Dominates
      <4> QED
        BY <1>3, <2>3, <3>1, <3>2, <4>1
    <3>4. Dominates(prog, w.at, <<block, idx>>)
      <4>1. CASE w.at[1] # block
        BY <3>3, <4>1 DEF Dominates
      <4>2. CASE w.at[1] = block
        <5>1. w.at[2] \in Int /\ w.at[2] <= last
          BY <1>2, <3>1, <4>2
        <5>2. w.at[2] < last + 1
          BY <5>1, BeforeTheEnd
        <5>3. w.at[2] < idx
          BY <1>21, <5>2
        <5> QED
          BY <4>2, <5>3 DEF Dominates
      <4> QED
        BY <4>1, <4>2
    <3> QED
      BY <2>2, <2>5, <3>4, Nearest
  <2>6. NoneNearer(v, <<b, 0>>)
    BY <2>5, NearestIntro
  <2> QED
    BY <1>22, <2>1, <2>6, NearestThen
<1> QED
  BY <1>22, <1>5, <1>6, <1>7
     DEF WalkInv, NamesReachHere, SearchIsTight, PhisReach, NamesReachThemselves, Walking

(* While the walk stays at a point and renames nothing, all but the search *)
(* rests.                                                                  *)
LEMMA HereRest ==
  ASSUME WInv, Walking, Walking', \A s : Asked(s)' <=> Asked(s),
         UNCHANGED <<prog, insertedPhis, todo, block, idx, operand, reaching>>
  PROVE  (/\ AheadAreNames /\ RenamedToNearest /\ ChainsAreTight /\ NamesReachHere
          /\ PhisReach)'
<1>1. UNCHANGED <<prog, insertedPhis, todo, block, idx, operand, reaching>>
  OBVIOUS
<1>2. IInv /\ AskedHere /\ SiteIsHere /\ Walking /\ Walking'
  BY DEF WInv
<1>3. \A s : Asked(s)' <=> Asked(s)
  OBVIOUS
<1>9. pc \notin {"pick name", "insert"} /\ pc' \notin {"pick name", "insert"}
  BY DEF Walking
<1>4. \A s \in DOMAIN operand : Ahead(s)' <=> Ahead(s)
  <2> TAKE s \in DOMAIN operand
  <2>1. PICK q : q = Point(prog, s)
    OBVIOUS
  <2>2. Ahead(s)' <=> \/ Pending(q[1])'
                      \/ q[1] = block /\ (q[2] > idx \/ Asked(s)')
    BY <1>1, <1>2, <1>9, <2>1, AheadThen
  <2>3. Pending(q[1])' <=> Pending(q[1])
    BY <1>1 DEF Pending
  <2>4. Ahead(s) <=> \/ Pending(q[1])
                     \/ q[1] = block /\ (q[2] > idx \/ Asked(s))
    BY <1>1, <1>2, <1>9, <2>1 DEF Ahead
  <2> QED
    BY <1>3, <2>2, <2>3, <2>4
<1>5. AheadAreNames' /\ RenamedToNearest'
  BY <1>1, <1>4, OperandsRest DEF WInv, WalkInv
<1>6. ChainsAreTight'
  BY <1>1, TightRest DEF WInv, WalkInv
<1>7. NamesReachHere'
  <2> SUFFICES ASSUME NEW n \in DefinedNames(prog)
               PROVE  NoneNearer(reaching[NameValue(prog, n)], <<block, idx>>)'
    BY <1>1, <1>2 DEF NamesReachHere
  <2>1. PICK v, x : v = reaching[NameValue(prog, n)] /\ x = <<block, idx>>
    OBVIOUS
  <2>2. NoneNearer(v, x)
    BY <1>2, <2>1 DEF WInv, WalkInv, NamesReachHere
  <2> QED
    BY <1>1, <2>1, <2>2, NearestThen
<1>8. PhisReach'
  <2> SUFFICES ASSUME idx = 0, NEW n \in DefinedNames(prog),
                      <<block, n>> \in insertedPhis, ~ Asked(NameSite(block, 0, n))'
               PROVE  reaching[NameValue(prog, n)] = PhiValue(block, n)
    BY <1>1 DEF PhisReach
  <2>1. PICK s : s = NameSite(block, 0, n)
    OBVIOUS
  <2>2. ~ Asked(s)'
    BY <1>1, <2>1
  <2> QED
    BY <1>2, <1>3, <2>1, <2>2 DEF WInv, WalkInv, PhisReach
<1> QED
  BY <1>5, <1>6, <1>7, <1>8

(* The search begins at the name, which leads to its nearest version.      *)
LEMMA WalkBegin == WInv /\ Begin => WalkInv'
<1> SUFFICES ASSUME WInv, Begin
             PROVE  WalkInv'
  OBVIOUS
<1>1. /\ pc = "visit" /\ pc' \in {"visit", "search"}
      /\ UNCHANGED <<prog, insertedPhis, todo, block, idx, operand, reaching>>
  <2>1. pc = "visit" /\ UNCHANGED <<prog, insertedPhis, todo, block, idx, operand, reaching>>
    BY DEF Begin, phiVars, walkVars
  <2>2. pc' \in {"visit", "search"}
    BY <2>1 DEF Begin
  <2> QED
    BY <2>1, <2>2
<1>2. IInv /\ AskedHere /\ SiteIsHere /\ Walking /\ Walking'
  BY <1>1 DEF WInv, Walking
<1>3. \A s : Asked(s)' <=> Asked(s)
  BY <1>2, AskedBegin
<1>4. SearchIsTight'
  <2> SUFFICES ASSUME pc' = "search"
               PROVE  NoneNearer(NextProbe, <<block, idx>>)'
    BY DEF SearchIsTight
  <2>1. requests # <<>> /\ Head(requests) # {}
    BY <1>1 DEF Begin
  <2>2. PICK s \in Head(requests) : site' = s /\ probe' = operand[s]
    BY <2>1 DEF Begin
  <2>3. requests \in Seq(SUBSET DOMAIN operand)
    BY <1>2 DEF IInv, TypeOK
  <2>4. s \in DOMAIN operand /\ IsRequested(s)
    <3>1. Head(requests) \in SUBSET DOMAIN operand /\ 1 \in DOMAIN requests /\ Head(requests) = requests[1]
      BY <2>1, <2>3
    <3> QED
      BY <3>1 DEF IsRequested
  <2>5. Point(prog, s) = <<block, idx>>
    BY <1>2, <2>4 DEF AskedHere, IsRequested
  <2>6. operand[s].kind = "name"
    <3>1. Ahead(s)
      BY <1>2, <2>4, <2>5 DEF Ahead, Asked
    <3> QED
      BY <2>4, <3>1 DEF WInv, WalkInv, AheadAreNames
  <2>7. IsVersion(operand[s])
    BY <1>2, <2>4 DEF IInv, OperandsAreDefined
  <2>8. PICK n \in DefinedNames(prog) : operand[s] = NameValue(prog, n)
    BY <1>2, <2>6, <2>7, VersionKinds
  <2>9. PICK v, x : v = reaching[NameValue(prog, n)] /\ x = <<block, idx>>
    OBVIOUS
  <2>10. NoneNearer(v, x)
    BY <1>2, <2>9 DEF WInv, WalkInv, NamesReachHere
  <2>11. NextProbe' = v
    <3>1. operand[s] \in DOMAIN reaching
      BY <1>2, <2>4 DEF IInv, ChainInv
    <3> QED
      BY <1>1, <2>2, <2>8, <2>9, <3>1 DEF NextProbe
  <2> QED
    BY <1>1, <2>9, <2>10, <2>11, NearestThen
<1> QED
  BY <1>1, <1>2, <1>3, <1>4, HereRest DEF WalkInv, NamesReachNext, NamesReachThemselves

(* The operand that is being renamed holds its name.                       *)
LEMMA SearchedName ==
  ASSUME WInv, pc = "search"
  PROVE  /\ site \in DOMAIN operand /\ Point(prog, site) = <<block, idx>> /\ ~ IsRequested(site)
         /\ operand[site].of \in DefinedNames(prog)
         /\ operand[site] = NameValue(prog, operand[site].of)
         /\ operand[site].kind = "name"
         /\ Ahead(site)
<1>1. IInv /\ SiteIsHere /\ Walking
  BY DEF WInv, Walking
<1>2. site \in DOMAIN operand
  BY <1>1 DEF IInv, SearchInv
<1>3. Point(prog, site) = <<block, idx>> /\ ~ IsRequested(site)
  BY <1>1 DEF SiteIsHere
<1>4. Ahead(site)
  BY <1>1, <1>3 DEF Ahead, Asked
<1>5. operand[site].kind = "name"
  BY <1>2, <1>4 DEF WInv, WalkInv, AheadAreNames
<1>6. IsVersion(operand[site])
  BY <1>1, <1>2 DEF IInv, OperandsAreDefined
<1> QED
  BY <1>1, <1>2, <1>3, <1>4, <1>5, <1>6, VersionKinds

(* One more link of a chain: no version between is passed over.            *)
LEMMA WalkFollow == WInv /\ Follow => WalkInv'
<1> SUFFICES ASSUME WInv, Follow
             PROVE  WalkInv'
  OBVIOUS
<1>1. /\ pc = "search" /\ pc' = "search" /\ ~ LoopEnds(NextProbe) /\ probe' = NextProbe
      /\ UNCHANGED <<prog, insertedPhis, todo, block, idx, operand, reaching, requests, site>>
  BY DEF Follow, phiVars, walkVars
<1>2. IInv /\ Walking /\ Walking'
  BY <1>1 DEF WInv, Walking
<1>3. \A s : Asked(s)' <=> Asked(s)
  BY <1>1 DEF Asked, IsRequested
<1>4. PICK v, u, x : v = NextProbe /\ u = reaching[v] /\ x = <<block, idx>>
  OBVIOUS
<1>5. /\ v \in DOMAIN reaching /\ IsVersion(v) /\ v.of = operand[site].of
      /\ ~ Dominates(prog, v.at, x) /\ v # operand[site]
  <2>1. Point(prog, site) = x
    BY <1>1, <1>4, SearchedName
  <2> QED
    BY <1>1, <1>2, <1>4, <2>1, NextProbeFacts DEF LoopEnds
<1>6. v.kind # "name"
  BY <1>1, <1>2, <1>5, VersionKinds, SearchedName
<1>7. NoneNearer(v, x)
  BY <1>1, <1>4 DEF WInv, WalkInv, SearchIsTight
<1>8. NoneNearer(u, v.at) /\ u.of = v.of
  BY <1>2, <1>4, <1>5, <1>6 DEF WInv, WalkInv, ChainsAreTight, IInv, ChainInv
<1>9. ASSUME NEW w, IsVersion(w), w.of = u.of, Dominates(prog, w.at, x)
      PROVE  w = u \/ Dominates(prog, w.at, u.at)
  <2>1. w = v \/ Dominates(prog, w.at, v.at)
    BY <1>7, <1>8, <1>9, Nearest
  <2>2. Dominates(prog, w.at, v.at)
    BY <1>5, <1>9, <2>1
  <2> QED
    BY <1>8, <1>9, <2>2, Nearest
<1>10. NoneNearer(u, x)
  BY <1>9, NearestIntro
<1>11. NextProbe' = u
  BY <1>1, <1>4, <1>5 DEF NextProbe
<1>12. SearchIsTight'
  <2>1. NoneNearer(NextProbe, <<block, idx>>)'
    BY <1>1, <1>4, <1>10, <1>11, NearestThen
  <2> QED
    BY <2>1 DEF SearchIsTight
<1> QED
  BY <1>1, <1>2, <1>3, <1>12, HereRest DEF WalkInv, NamesReachNext, NamesReachThemselves

-----------------------------------------------------------------------------
(* What the loop found                                                     *)

LEMMA PutFacts ==
  ASSUME NEW f, NEW x, NEW y
  PROVE  /\ x \in DOMAIN Put(f, x, y) /\ Put(f, x, y)[x] = y
         /\ \A z \in DOMAIN f : z # x => z \in DOMAIN Put(f, x, y) /\ Put(f, x, y)[z] = f[z]
         /\ \A z \in DOMAIN Put(f, x, y) : z # x => z \in DOMAIN f
BY DEF Put

LEMMA NotAfter == ASSUME NEW i \in Int PROVE ~ (i > i)
OBVIOUS

(* The PHI that is looked up, when one is.                                 *)
LEMMA LookedUp ==
  ASSUME WInv, pc = "search"
  PROVE  /\ idx = 0 <=> IsLookup(site)
         /\ idx = 0 => /\ site = NameSite(block, 0, operand[site].of)
                       /\ site.at[1] = block /\ site.slot = operand[site].of
<1>1. IInv /\ SitesAre /\ SimpleEdges(prog) /\ block \in prog.blocks /\ idx \in Int
  <2>1. Len(prog.code[block]) \in Nat
    BY CodeLength DEF WInv, IInv, TypeOK
  <2>2. idx \in 0 .. Len(prog.code[block]) + 1
    BY DEF WInv, IInv, TypeOK
  <2> QED
    BY <2>1, <2>2 DEF WInv, IInv, TypeOK
<1>2. site \in DOMAIN operand /\ Point(prog, site) = <<block, idx>>
  BY SearchedName
<1>3. ASSUME IsLookup(site)
      PROVE  idx = 0
  BY <1>2, <1>3 DEF IsLookup, Point
<1>4. ASSUME idx = 0
      PROVE  /\ IsLookup(site) /\ site = NameSite(block, 0, operand[site].of)
             /\ site.at[1] = block /\ site.slot = operand[site].of
  <2>1. site \in PhiRequests(block)
    BY <1>1, <1>2, <1>4, SiteIsRequested
  <2>2. PICK n \in Names : site = NameSite(block, 0, n)
    BY <2>1 DEF PhiRequests
  <2>3. n # "obj" /\ n # "in"
    BY NamesAssumption
  <2>4. site.at = <<block, 0>> /\ site.slot = n /\ site.edge = Absent
    BY <2>2 DEF NameSite
  <2>5. NameAt(prog, site) = n
    BY <2>3, <2>4 DEF NameAt
  <2>6. operand[site].of = n
    BY <1>1, <1>2, <2>5 DEF IInv, OperandsKeepTheirNames
  <2> QED
    BY <2>2, <2>4, <2>6 DEF IsLookup
<1> QED
  BY <1>3, <1>4

(* What the end of the loop leaves in the map.                             *)
LEMMA RenameReaching ==
  ASSUME WInv, Rename
  PROVE  LET n == operand[site].of
             old == NameValue(prog, n)
             phi == PhiValue(block, n) IN
         /\ idx # 0 => /\ reaching'[old] = NextProbe
                       /\ \A z \in DOMAIN reaching' : z # old => /\ z \in DOMAIN reaching
                                                                 /\ reaching'[z] = reaching[z]
         /\ idx = 0 => /\ reaching'[old] = phi /\ reaching'[phi] = NextProbe
                       /\ \A z \in DOMAIN reaching' : z # old /\ z # phi =>
                                                        /\ z \in DOMAIN reaching
                                                        /\ reaching'[z] = reaching[z]
<1>1. pc = "search" /\ IInv
  BY DEF Rename, WInv
<1> DEFINE n == operand[site].of
           old == NameValue(prog, n)
           phi == PhiValue(block, n)
           v == NextProbe
           found == Put(reaching, old, v)
<1>2. NextProbe # NoValue
  BY <1>1, NextProbeFacts
<1>3. operand[site] = old
  BY <1>1, SearchedName
<1>4. idx # 0 => reaching' = found
  <2>1. idx # 0 => ~ IsLookup(site)
    BY <1>1, LookedUp
  <2> QED
    BY <1>2, <1>3, <2>1 DEF Rename, IsLookup
<1>5. idx = 0 => reaching' = Put(Put(found, old, phi), phi, v)
  <2>1. idx = 0 => IsLookup(site) /\ site.at[1] = block /\ site.slot = n
    BY <1>1, LookedUp
  <2> QED
    BY <1>2, <1>3, <2>1 DEF Rename, IsLookup, PhiReaching
<1>6. phi # old
  BY DEF PhiValue, NameValue
<1> HIDE DEF n, old, phi, v, found
<1>7. found[old] = v /\ \A z \in DOMAIN found : z # old => z \in DOMAIN reaching /\ found[z] = reaching[z]
  BY PutFacts DEF found
<1>8. PICK g : g = Put(found, old, phi)
  OBVIOUS
<1>9. /\ old \in DOMAIN g /\ g[old] = phi
      /\ \A z \in DOMAIN g : z # old => z \in DOMAIN found /\ g[z] = found[z]
  BY <1>8, PutFacts
<1>10. /\ Put(g, phi, v)[phi] = v
       /\ \A z \in DOMAIN g : z # phi => Put(g, phi, v)[z] = g[z]
       /\ \A z \in DOMAIN Put(g, phi, v) : z # phi => z \in DOMAIN g
  BY PutFacts
<1>11. CASE idx # 0
  BY <1>4, <1>7, <1>11 DEF n, old, phi, v
<1>12. CASE idx = 0
  <2>1. reaching' = Put(g, phi, v)
    BY <1>5, <1>8, <1>12
  <2>2. reaching'[phi] = v /\ reaching'[old] = phi
    BY <1>6, <1>9, <1>10, <2>1
  <2>3. \A z \in DOMAIN reaching' : z # old /\ z # phi => z \in DOMAIN reaching /\ reaching'[z] = reaching[z]
    BY <1>7, <1>9, <1>10, <2>1
  <2> QED
    BY <1>12, <2>2, <2>3 DEF n, old, phi, v
<1> QED
  BY <1>11, <1>12

(* The operand gets the nearest version, the name leads to it, and a PHI   *)
(* that is looked up comes between.                                        *)
LEMMA WalkRename == WInv /\ Rename => WalkInv'
<1> SUFFICES ASSUME WInv, Rename
             PROVE  WalkInv'
  OBVIOUS
<1>1. /\ pc = "search" /\ pc' = "visit" /\ operand' = [operand EXCEPT ![site] = NextProbe]
      /\ UNCHANGED <<prog, insertedPhis, todo, block, idx, requests, site>>
  BY DEF Rename, phiVars, walkVars, renameVars
<1>2. IInv /\ TreeInv /\ AskedHere /\ SiteIsHere /\ Walking /\ Walking'
  BY <1>1 DEF WInv, Walking
<1>3. PICK v, x, n, old, phi : /\ v = NextProbe /\ x = <<block, idx>>
                               /\ n = operand[site].of
                               /\ old = NameValue(prog, n)
                               /\ phi = PhiValue(block, n)
  OBVIOUS
<1>4. /\ site \in DOMAIN operand /\ Point(prog, site) = x /\ ~ IsRequested(site)
      /\ n \in DefinedNames(prog) /\ operand[site] = old /\ old.of = n /\ old.kind = "name"
  BY <1>1, <1>3, SearchedName DEF NameValue
<1>5. NoneNearer(v, x)
  BY <1>1, <1>3 DEF WInv, WalkInv, SearchIsTight
<1>6. /\ idx # 0 => /\ reaching'[old] = v
                    /\ \A z \in DOMAIN reaching' : z # old => /\ z \in DOMAIN reaching
                                                              /\ reaching'[z] = reaching[z]
      /\ idx = 0 => /\ reaching'[old] = phi /\ reaching'[phi] = v
                    /\ \A z \in DOMAIN reaching' : z # old /\ z # phi =>
                                                     /\ z \in DOMAIN reaching
                                                     /\ reaching'[z] = reaching[z]
  BY <1>3, RenameReaching
<1>7. DOMAIN operand' = DOMAIN operand /\ operand'[site] = v
      /\ \A s \in DOMAIN operand : s # site => operand'[s] = operand[s]
  BY <1>1, <1>3, <1>4
<1>8. \A s : Asked(s) <=> Asked(s)' \/ s = site
  BY <1>1 DEF Asked, IsRequested
<1>9. ~ Asked(site)'
  BY <1>1, <1>4 DEF Asked, IsRequested
<1>10. \A s \in DOMAIN operand : s # site => (Ahead(s)' <=> Ahead(s))
  <2> TAKE s \in DOMAIN operand
  <2>1. PICK q : q = Point(prog, s)
    OBVIOUS
  <2>2. Ahead(s)' <=> \/ Pending(q[1])'
                      \/ q[1] = block /\ (q[2] > idx \/ Asked(s)')
    BY <1>1, <1>2, <2>1, AheadThen
  <2>3. Pending(q[1])' <=> Pending(q[1])
    BY <1>1 DEF Pending
  <2>4. Ahead(s) <=> \/ Pending(q[1])
                     \/ q[1] = block /\ (q[2] > idx \/ Asked(s))
    BY <1>1, <1>2, <2>1 DEF Ahead
  <2> QED
    BY <1>8, <2>2, <2>3, <2>4
<1>11. ~ Ahead(site)'
  <2>1. Ahead(site)' <=> \/ Pending(x[1])'
                         \/ x[1] = block /\ (x[2] > idx \/ Asked(site)')
    BY <1>1, <1>2, <1>4, AheadThen
  <2>2. ~ Pending(x[1])'
    <3>1. ~ Pending(block)
      BY <1>2 DEF TreeInv, BlockIsBefore
    <3> QED
      BY <1>1, <1>3, <3>1 DEF Pending
  <2>3. ~ (x[2] > idx)
    <3>1. idx \in Int
      <4>1. Len(prog.code[block]) \in Nat
        BY <1>2, CodeLength DEF IInv, TypeOK
      <4>2. idx \in 0 .. Len(prog.code[block]) + 1
        BY <1>2 DEF IInv, TypeOK
      <4> QED
        BY <4>1, <4>2
    <3> QED
      BY <1>3, <3>1, NotAfter
  <2> QED
    BY <1>9, <2>1, <2>2, <2>3
<1>110. \A s : Ahead(s)' => s # site
  <2>1. PICK z : z = site
    OBVIOUS
  <2>2. ~ Ahead(z)'
    BY <1>1, <1>11, <2>1
  <2> QED
    BY <2>1, <2>2
<1>12. AheadAreNames'
  <2> SUFFICES ASSUME NEW s \in DOMAIN operand', Ahead(s)'
               PROVE  operand'[s].kind = "name"
    BY DEF AheadAreNames
  <2>1. s # site
    BY <1>110
  <2>2. Ahead(s) /\ operand'[s] = operand[s] /\ s \in DOMAIN operand
    BY <1>7, <1>10, <2>1
  <2> QED
    BY <2>2 DEF WInv, WalkInv, AheadAreNames
<1>13. ASSUME NEW s \in DOMAIN operand', ~ Ahead(s)'
       PROVE  NoneNearer(operand[s], Point(prog, s))'
  <2>1. PICK u, y : u = operand'[s] /\ y = Point(prog, s)
    OBVIOUS
  <2>2. NoneNearer(u, y)
    <3>1. CASE s = site
      BY <1>4, <1>5, <1>7, <2>1, <3>1
    <3>2. CASE s # site
      <4>1. ~ Ahead(s) /\ u = operand[s] /\ s \in DOMAIN operand
        BY <1>7, <1>10, <1>13, <2>1, <3>2
      <4> QED
        BY <2>1, <4>1 DEF WInv, WalkInv, RenamedToNearest
    <3> QED
      BY <3>1, <3>2
  <2> QED
    BY <1>1, <2>1, <2>2, NearestThen
<1>130. RenamedToNearest'
  BY <1>13 DEF RenamedToNearest
<1>14. NamesReachHere'
  <2> SUFFICES ASSUME NEW m \in DefinedNames(prog)
               PROVE  NoneNearer(reaching[NameValue(prog, m)], <<block, idx>>)'
    BY <1>1 DEF NamesReachHere
  <2>1. PICK u : u = reaching'[NameValue(prog, m)]
    OBVIOUS
  <2>2. NoneNearer(u, x)
    <3>1. CASE m = n /\ idx # 0
      BY <1>3, <1>5, <1>6, <2>1, <3>1
    <3>2. CASE m = n /\ idx = 0
      <4>1. u = phi /\ u.at = x
        BY <1>3, <1>6, <2>1, <3>2 DEF PhiValue
      <4> QED
        BY <4>1, NearestAtOwn
    <3>3. CASE m # n
      <4>1. NameValue(prog, m) \in DOMAIN reaching'
        <5>1. IInv'
          BY <1>2, RenameInv
        <5> QED
          BY <1>1, <5>1 DEF IInv, ChainInv
      <4>2. NameValue(prog, m) # old /\ NameValue(prog, m) # phi
        BY <1>3, <3>3 DEF NameValue, PhiValue
      <4>3. u = reaching[NameValue(prog, m)]
        BY <1>6, <2>1, <4>1, <4>2
      <4> QED
        BY <1>2, <1>3, <4>3 DEF WInv, WalkInv, NamesReachHere
    <3> QED
      BY <3>1, <3>2, <3>3
  <2> QED
    BY <1>1, <1>3, <2>1, <2>2, NearestThen
<1>15. ChainsAreTight'
  <2> SUFFICES ASSUME NEW z \in DOMAIN reaching', z.kind # "name"
               PROVE  NoneNearer(reaching[z], z.at)'
    BY DEF ChainsAreTight
  <2>1. PICK u : u = reaching'[z]
    OBVIOUS
  <2>2. z # old
    BY <1>4
  <2>3. NoneNearer(u, z.at)
    <3>1. CASE z = phi /\ idx = 0
      <4>1. u = v /\ z.at = x
        BY <1>3, <1>6, <2>1, <3>1 DEF PhiValue
      <4> QED
        BY <1>5, <4>1
    <3>2. CASE ~ (z = phi /\ idx = 0)
      <4>1. z \in DOMAIN reaching /\ u = reaching[z]
        BY <1>6, <2>1, <2>2, <3>2
      <4> QED
        BY <4>1 DEF WInv, WalkInv, ChainsAreTight
    <3> QED
      BY <3>1, <3>2
  <2> QED
    BY <1>1, <2>1, <2>3, NearestThen
<1>16. PhisReach'
  <2> SUFFICES ASSUME idx = 0, NEW m \in DefinedNames(prog),
                      <<block, m>> \in insertedPhis, ~ Asked(NameSite(block, 0, m))'
               PROVE  reaching'[NameValue(prog, m)] = PhiValue(block, m)
    BY <1>1 DEF PhisReach
  <2>1. PICK s : s = NameSite(block, 0, m)
    OBVIOUS
  <2>2. ~ Asked(s)'
    BY <1>1, <2>1
  <2>3. site = NameSite(block, 0, n)
    BY <1>1, <1>3, LookedUp
  <2>4. CASE m = n
    BY <1>3, <1>6, <2>4
  <2>5. CASE m # n
    <3>1. s # site
      BY <2>1, <2>3, <2>5 DEF NameSite
    <3>2. ~ Asked(s)
      BY <1>8, <2>2, <3>1
    <3>3. reaching[NameValue(prog, m)] = PhiValue(block, m)
      BY <1>2, <2>1, <3>2 DEF WInv, WalkInv, PhisReach
    <3>4. NameValue(prog, m) \in DOMAIN reaching'
      <4>1. IInv'
        BY <1>2, RenameInv
      <4> QED
        BY <1>1, <4>1 DEF IInv, ChainInv
    <3>5. NameValue(prog, m) # old /\ NameValue(prog, m) # phi
      BY <1>3, <2>5 DEF NameValue, PhiValue
    <3> QED
      BY <1>6, <3>3, <3>4, <3>5
  <2> QED
    BY <2>4, <2>5
<1> QED
  BY <1>1, <1>12, <1>130, <1>14, <1>15, <1>16
     DEF WalkInv, NamesReachNext, SearchIsTight, NamesReachThemselves

LEMMA OneAfter ==
  ASSUME NEW i \in Int, NEW j \in Int
  PROVE  /\ i + 1 \in Int /\ i + 1 # i
         /\ j > i <=> j > i + 1 \/ j = i + 1
         /\ j < i + 1 <=> j < i \/ j = i
OBVIOUS

LEMMA NatIsNotBefore == ASSUME NEW i \in Nat PROVE i + 1 # 0
OBVIOUS

LEMMA ZeroOrMore ==
  ASSUME NEW j \in Nat, NEW i \in 0 .. j + 1
  PROVE  /\ i \in Nat /\ i \in Int
         /\ i <= j => i < j \/ i = j
         /\ i < j => i + 1 \in 1 .. j
         /\ i <= j /\ i # 0 => i \in 1 .. j
OBVIOUS

(* What a definition that dominates the next point does here.              *)
LEMMA NextPoint ==
  ASSUME NEW p, NEW b, NEW i \in Int, NEW x \in p.blocks \X Int, Dominates(p, x, <<b, i + 1>>)
  PROVE  Dominates(p, x, <<b, i>>) \/ x = <<b, i>>
<1>1. x = <<x[1], x[2]>> /\ x[2] \in Int
  OBVIOUS
<1>2. CASE x[1] # b
  BY <1>2 DEF Dominates
<1>3. CASE x[1] = b
  <2>1. x[2] < i + 1
    BY <1>3 DEF Dominates
  <2>2. x[2] < i \/ x[2] = i
    BY <1>1, <2>1, OneAfter
  <2> QED
    BY <1>1, <1>3, <2>2 DEF Dominates
<1> QED
  BY <1>2, <1>3

(* The map once an instruction is done.                                    *)
LEMMA NewReachingEntries ==
  ASSUME IInv, NEW b \in prog.blocks, NEW i \in 1 .. Len(prog.code[b])
  PROVE  LET ins == Instr(prog, <<b, i>>)
             all == NewReaching(b, i) IN
         /\ \A n \in DefinedNames(prog) :
              all[NameValue(prog, n)] = IF ins.def = n THEN NameValue(prog, n)
                                        ELSE IF Redefines(ins) /\ ins.obj = n
                                        THEN Redefinition(n, b, i)
                                        ELSE reaching[NameValue(prog, n)]
         /\ \A v \in DOMAIN all :
              v.kind # "name" =>
                \/ Redefines(ins) /\ v = Redefinition(ins.obj, b, i) /\ all[v] = operand[ObjSite(b, i)]
                \/ v \in DOMAIN reaching /\ all[v] = reaching[v]
<1> DEFINE ins == Instr(prog, <<b, i>>)
           all == NewReaching(b, i)
           new == Redefinition(ins.obj, b, i)
           old == NameValue(prog, ins.obj)
           def == NameValue(prog, ins.def)
           first == Put(reaching, old, new)
           updated == IF Redefines(ins) THEN Put(first, new, operand[ObjSite(b, i)]) ELSE reaching
<1>1. all = IF ins.def = Absent THEN updated ELSE Put(updated, def, def)
  BY DEF NewReaching
<1>2. new.kind = "redef" /\ old.kind = "name" /\ old.of = ins.obj /\ def.kind = "name" /\ def.of = ins.def
  BY DEF Redefinition, NameValue
<1>3. \A n : NameValue(prog, n).of = n /\ NameValue(prog, n).kind = "name"
  BY DEF NameValue
<1>30. \A n \in DefinedNames(prog) : n # Absent
  BY NamesAssumption DEF DefinedNames
<1>31. \A n : n = ins.obj => NameValue(prog, n) = old /\ Redefinition(n, b, i) = new
  OBVIOUS
<1>32. \A n : n = ins.def => NameValue(prog, n) = def
  OBVIOUS
<1>4. \A n \in DefinedNames(prog) : NameValue(prog, n) \in DOMAIN reaching
  BY DEF IInv, ChainInv
<1> HIDE DEF new, old, def, first, updated, ins, all
<1>5. /\ old \in DOMAIN first /\ first[old] = new
      /\ \A z \in DOMAIN reaching : z # old => z \in DOMAIN first /\ first[z] = reaching[z]
      /\ \A z \in DOMAIN first : z # old => z \in DOMAIN reaching
  BY PutFacts DEF first
<1>6. Redefines(ins) =>
        /\ new \in DOMAIN updated /\ updated[new] = operand[ObjSite(b, i)]
        /\ \A z \in DOMAIN first : z # new => z \in DOMAIN updated /\ updated[z] = first[z]
        /\ \A z \in DOMAIN updated : z # new => z \in DOMAIN first
  BY PutFacts DEF updated
<1>7. ~ Redefines(ins) => updated = reaching
  BY DEF updated
<1>8. ins.def # Absent =>
        /\ def \in DOMAIN all /\ all[def] = def
        /\ \A z \in DOMAIN updated : z # def => z \in DOMAIN all /\ all[z] = updated[z]
        /\ \A z \in DOMAIN all : z # def => z \in DOMAIN updated
  BY <1>1, PutFacts
<1>9. ins.def = Absent => all = updated
  BY <1>1
<1>10. ASSUME NEW n \in DefinedNames(prog)
       PROVE  all[NameValue(prog, n)] = IF ins.def = n THEN NameValue(prog, n)
                                        ELSE IF Redefines(ins) /\ ins.obj = n
                                        THEN Redefinition(n, b, i)
                                        ELSE reaching[NameValue(prog, n)]
  <2> DEFINE m == NameValue(prog, n)
  <2>1. m \in DOMAIN reaching /\ m.kind = "name" /\ m.of = n /\ n # Absent
    BY <1>3, <1>30, <1>4
  <2>2. (m = old => n = ins.obj) /\ (m = def => n = ins.def) /\ m # new
    BY <1>2, <2>1
  <2>3. (n = ins.obj => m = old /\ Redefinition(n, b, i) = new) /\ (n = ins.def => m = def)
    BY <1>31, <1>32
  <2> HIDE DEF m
  <2>4. m \in DOMAIN updated /\ updated[m] = IF Redefines(ins) /\ ins.obj = n THEN new ELSE reaching[m]
    BY <1>5, <1>6, <1>7, <2>1, <2>2, <2>3
  <2>5. all[m] = IF ins.def = n THEN m ELSE updated[m]
    BY <1>8, <1>9, <2>1, <2>2, <2>3, <2>4
  <2> QED
    BY <2>3, <2>4, <2>5 DEF m
<1>11. ASSUME NEW v \in DOMAIN all, v.kind # "name"
       PROVE  \/ Redefines(ins) /\ v = new /\ all[v] = operand[ObjSite(b, i)]
              \/ v \in DOMAIN reaching /\ all[v] = reaching[v]
  <2>1. v # old /\ v # def
    BY <1>2, <1>11
  <2>2. v \in DOMAIN updated /\ all[v] = updated[v]
    BY <1>8, <1>9, <2>1
  <2> QED
    BY <1>5, <1>6, <1>7, <2>1, <2>2
<1> QED
  BY <1>10, <1>11 DEF new, ins, all

(* The operands ahead stay ahead: those of the next point are asked for.   *)
LEMMA AdvanceAhead ==
  ASSUME WInv, Advance, NEW s \in DOMAIN operand
  PROVE  Ahead(s)' <=> Ahead(s)
<1>1. /\ pc = "visit" /\ pc' = "visit" /\ requests = <<>> /\ idx' = idx + 1
      /\ idx <= Len(prog.code[block])
      /\ requests' = IF idx < Len(prog.code[block]) THEN InstructionRequests(block, idx + 1)
                                                    ELSE SuccessorRequests(block)
      /\ UNCHANGED <<prog, insertedPhis, todo, block, operand>>
  BY DEF Advance, phiVars
<1>2. IInv /\ SitesAre /\ SimpleEdges(prog) /\ block \in prog.blocks /\ Walking /\ Walking'
  BY <1>1 DEF WInv, IInv, TypeOK, Walking
<1>3. PICK last \in Nat : last = Len(prog.code[block])
  BY <1>2, CodeLength DEF IInv, TypeOK
<1>4. idx \in 0 .. last + 1 /\ idx <= last
  BY <1>1, <1>2, <1>3 DEF IInv, TypeOK
<1>5. idx \in Int /\ (idx < last \/ idx = last) /\ (idx < last => idx + 1 \in 1 .. last)
  BY <1>4, ZeroOrMore
<1>6. PICK q : q = Point(prog, s)
  OBVIOUS
<1>7. q = <<q[1], q[2]>> /\ q[2] \in Int
  BY <1>6, PointFacts
<1>8. Asked(s)' => q = <<block, idx + 1>>
  <2>1. AskedHere'
    BY <1>2, AskedAdvance
  <2>2. Asked(s)' => \E i \in DOMAIN requests' : s \in requests'[i]
    BY <1>1 DEF Asked, IsRequested
  <2> QED
    BY <1>1, <1>2, <1>6, <2>1, <2>2 DEF AskedHere
<1>9. ASSUME q[1] = block, q[2] = idx + 1
      PROVE  Asked(s)'
  <2>1. \E j \in DOMAIN requests' : s \in requests'[j]
    <3>1. CASE idx < last
      <4>1. idx + 1 \in Int /\ 1 <= idx + 1 /\ idx + 1 <= last
        BY <1>5, <3>1
      <4>2. requests' = InstructionRequests(block, idx + 1)
        BY <1>1, <1>3, <3>1
      <4>3. Point(prog, s) = <<block, idx + 1>>
        BY <1>6, <1>7, <1>9
      <4> QED
        BY <1>2, <1>3, <4>1, <4>2, <4>3, SiteIsRequested
    <3>2. CASE ~ (idx < last)
      <4>1. idx + 1 = last + 1 /\ last + 1 \in Int
        BY <1>5, <3>2
      <4>2. requests' = SuccessorRequests(block)
        BY <1>1, <1>3, <3>2
      <4>3. Point(prog, s) = <<block, last + 1>>
        BY <1>6, <1>7, <1>9, <4>1
      <4> QED
        BY <1>2, <1>3, <4>1, <4>2, <4>3, SiteIsRequested
    <3> QED
      BY <3>1, <3>2
  <2> QED
    BY <2>1 DEF Asked, IsRequested
<1>10. Ahead(s)' <=> \/ Pending(q[1])'
                     \/ q[1] = block /\ (q[2] > idx + 1 \/ Asked(s)')
  BY <1>1, <1>2, <1>6, AheadThen
<1>11. Pending(q[1])' <=> Pending(q[1])
  BY <1>1 DEF Pending
<1>12. ~ Asked(s)
  BY <1>1, NothingAsked
<1>13. Ahead(s) <=> \/ Pending(q[1])
                    \/ q[1] = block /\ q[2] > idx
  BY <1>1, <1>2, <1>6, <1>12 DEF Ahead
<1>14. q[2] > idx <=> q[2] > idx + 1 \/ q[2] = idx + 1
  BY <1>5, <1>7, OneAfter
<1> QED
  BY <1>8, <1>9, <1>10, <1>11, <1>13, <1>14

(* On to the next point: what the instruction defines is the nearest       *)
(* there, and a new version leads to the one its object had.               *)
LEMMA AdvanceNames ==
  ASSUME WInv, Advance
  PROVE  NamesReachHere'
<1>1. /\ pc = "visit" /\ requests = <<>> /\ idx' = idx + 1 /\ idx <= Len(prog.code[block])
      /\ reaching' = IF idx = 0 THEN reaching ELSE NewReaching(block, idx)
      /\ UNCHANGED <<prog, insertedPhis, block>>
  BY DEF Advance, phiVars
<1>2. IInv /\ PhisBelow /\ block \in prog.blocks /\ prog \in Programs /\ Walking
  BY <1>1 DEF WInv, IInv, TypeOK, Walking
<1>3. PICK last \in Nat : last = Len(prog.code[block])
  BY <1>2, CodeLength
<1>4. idx \in Int /\ (idx # 0 => idx \in 1 .. last)
  <2>1. idx \in 0 .. last + 1 /\ idx <= last
    BY <1>1, <1>2, <1>3 DEF IInv, TypeOK
  <2> QED
    BY <2>1, ZeroOrMore
<1>5. IInv'
  BY <1>2, AdvanceInv
<1> SUFFICES ASSUME NEW n \in DefinedNames(prog)
             PROVE  NoneNearer(reaching[NameValue(prog, n)], <<block, idx>>)'
  BY <1>1 DEF NamesReachHere
<1>6. PICK m, v, u, x, y : /\ m = NameValue(prog, n) /\ v = reaching[m] /\ u = reaching'[m]
                           /\ x = <<block, idx>> /\ y = <<block, idx + 1>>
  OBVIOUS
<1>7. NoneNearer(v, x) /\ v.of = n
  BY <1>2, <1>6, NamesAreVersions DEF WInv, WalkInv, NamesReachHere
<1>8. IsVersion(u) /\ u.of = n
  <2>1. \A z \in DOMAIN reaching' : IsVersion(z)' /\ reaching'[z] \in DOMAIN reaching' /\ reaching'[z].of = z.of
    BY <1>5 DEF IInv, ChainInv
  <2>2. m \in DOMAIN reaching' /\ m.of = n
    BY <1>1, <1>5, <1>6 DEF IInv, ChainInv, NameValue
  <2>3. IsVersion(u)' /\ u.of = n
    BY <1>6, <2>1, <2>2
  <2> QED
    BY <1>1, <2>3 DEF IsVersion
<1>9. \/ u = v
      \/ u.at = x
  <2>1. CASE idx = 0
    BY <1>1, <1>6, <2>1
  <2>2. CASE idx # 0
    <3> DEFINE ins == Instr(prog, <<block, idx>>)
    <3>1. idx \in 1 .. Len(prog.code[block])
      BY <1>3, <1>4, <2>2
    <3>2. u = IF ins.def = n THEN m
              ELSE IF Redefines(ins) /\ ins.obj = n
              THEN Redefinition(n, block, idx)
              ELSE v
      BY <1>1, <1>2, <1>6, <2>2, <3>1, NewReachingEntries
    <3>3. ins.def = n => m.at = x
      <4> SUFFICES ASSUME ins.def = n
                   PROVE  m.at = x
        OBVIOUS
      <4>1. x \in CodePositions(prog)
        BY <1>2, <1>6, <3>1, CodePositionIntro
      <4>2. x \in DefPositions(prog, n)
        BY <1>6, <4>1 DEF DefPositions
      <4>3. DefPosition(prog, n) \in DefPositions(prog, n)
        BY <1>2, DefPositionFacts
      <4>4. DefPosition(prog, n) = x
        BY <1>2, <4>2, <4>3, ProgramsAssumption DEF InSSAForm
      <4> QED
        BY <1>2, <1>6, <4>4, NameValueFacts
    <3>4. Redefinition(n, block, idx).at = x
      BY <1>6 DEF Redefinition
    <3> HIDE DEF ins
    <3> QED
      BY <3>2, <3>3, <3>4
  <2> QED
    BY <2>1, <2>2
<1>10. ASSUME NEW w, IsVersion(w), w.of = u.of, Dominates(prog, w.at, y)
       PROVE  w = u \/ Dominates(prog, w.at, u.at)
  <2>1. w.at \in prog.blocks \X Int /\ w.of = n
    BY <1>2, <1>8, <1>10, VersionKinds
  <2>2. Dominates(prog, w.at, x) \/ w.at = x
    BY <1>4, <1>6, <1>10, <2>1, NextPoint
  <2>3. CASE Dominates(prog, w.at, x)
    BY <1>7, <1>9, <1>10, <2>1, <2>3, Nearest
  <2>4. CASE w.at = x
    <3>1. CASE w.kind = "name"
      <4>1. w = NameValue(prog, n) /\ w.at = DefPosition(prog, n)
        BY <1>2, <1>10, <2>1, <3>1, VersionKinds
      <4>2. u = NameValue(prog, n) \/ Dominates(prog, DefPosition(prog, n), u.at)
        BY <1>2, <1>8, NameFirst
      <4> QED
        BY <4>1, <4>2
    <3>2. CASE w.kind = "phi"
      <4>1. w = PhiValue(block, n) /\ idx = 0 /\ <<block, n>> \in insertedPhis
        BY <1>2, <1>6, <1>10, <2>1, <2>4, <3>2, VersionKinds
      <4>2. PICK s : s = NameSite(block, 0, n)
        OBVIOUS
      <4>3. ~ Asked(s)
        BY <1>1, NothingAsked
      <4>4. v = PhiValue(block, n)
        BY <1>2, <1>6, <4>1, <4>2, <4>3 DEF WInv, WalkInv, PhisReach
      <4>5. u = v
        BY <1>1, <1>6, <4>1
      <4> QED
        BY <4>1, <4>4, <4>5
    <3>3. CASE w.kind = "redef"
      <4>1. /\ w = Redefinition(n, block, idx) /\ idx # 0
            /\ Redefines(Instr(prog, x)) /\ Instr(prog, x).obj = n
            /\ x \in CodePositions(prog)
        <5>1. /\ w = Redefinition(w.of, w.at[1], w.at[2]) /\ w.at \in CodePositions(prog)
              /\ 1 <= w.at[2] /\ Redefines(Instr(prog, w.at)) /\ Instr(prog, w.at).obj = w.of
          BY <1>2, <1>10, <3>3, VersionKinds
        <5>2. w.at[1] = block /\ w.at[2] = idx
          BY <1>6, <2>4
        <5> QED
          BY <2>1, <2>4, <5>1, <5>2
      <4>2. Instr(prog, x).def # n
        <5> SUFFICES ASSUME Instr(prog, x).def = n
                     PROVE  FALSE
          OBVIOUS
        <5>1. x \in DefPositions(prog, n)
          BY <4>1 DEF DefPositions
        <5>2. DefPosition(prog, n) = x
          BY <1>2, <5>1, DefPositionFacts, ProgramsAssumption DEF InSSAForm
        <5>3. n # Absent
          BY NamesAssumption DEF DefinedNames
        <5>4. Dominates(prog, x, x)
          BY <1>2, <4>1, <5>2, <5>3, ObjectFacts
        <5> QED
          BY <1>2, <2>1, <2>4, <5>4, PointsStrict
      <4>3. idx \in 1 .. Len(prog.code[block])
        BY <1>3, <1>4, <4>1
      <4>4. u = Redefinition(n, block, idx)
        BY <1>1, <1>2, <1>6, <4>1, <4>2, <4>3, NewReachingEntries
      <4> QED
        BY <4>1, <4>4
    <3> QED
      BY <1>2, <1>10, <3>1, <3>2, <3>3, VersionKinds
  <2> QED
    BY <2>2, <2>3, <2>4
<1>11. NoneNearer(u, y)
  BY <1>10, NearestIntro
<1> QED
  BY <1>1, <1>6, <1>11, NearestThen

LEMMA WalkAdvance == WInv /\ Advance => WalkInv'
<1> SUFFICES ASSUME WInv, Advance
             PROVE  WalkInv'
  OBVIOUS
<1>1. /\ pc = "visit" /\ pc' = "visit" /\ requests = <<>> /\ idx' = idx + 1
      /\ idx <= Len(prog.code[block])
      /\ reaching' = IF idx = 0 THEN reaching ELSE NewReaching(block, idx)
      /\ UNCHANGED <<prog, insertedPhis, todo, block, operand>>
  BY DEF Advance, phiVars
<1>2. IInv /\ TreeInv /\ block \in prog.blocks /\ prog \in Programs /\ Walking
  BY <1>1 DEF WInv, IInv, TypeOK, Walking
<1>3. PICK last \in Nat : last = Len(prog.code[block])
  BY <1>2, CodeLength
<1>4. idx \in Nat /\ idx \in Int /\ (idx # 0 => idx \in 1 .. last)
  <2>1. idx \in 0 .. last + 1 /\ idx <= last
    BY <1>1, <1>2, <1>3 DEF IInv, TypeOK
  <2> QED
    BY <2>1, ZeroOrMore
<1>5. AheadAreNames' /\ RenamedToNearest'
  BY <1>1, AdvanceAhead, OperandsRest DEF WInv, WalkInv
<1>6. ASSUME NEW z \in DOMAIN reaching', z.kind # "name"
      PROVE  NoneNearer(reaching[z], z.at)'
  <2>1. PICK u : u = reaching'[z]
    OBVIOUS
  <2>2. NoneNearer(u, z.at)
    <3>1. CASE z \in DOMAIN reaching /\ u = reaching[z]
      BY <1>6, <3>1 DEF WInv, WalkInv, ChainsAreTight
    <3>2. CASE ~ (z \in DOMAIN reaching /\ u = reaching[z])
      <4>1. idx # 0 /\ idx \in 1 .. Len(prog.code[block]) /\ reaching' = NewReaching(block, idx)
        BY <1>1, <1>3, <1>4, <2>1, <3>2
      <4>2. PICK x, s : x = <<block, idx>> /\ s = ObjSite(block, idx)
        OBVIOUS
      <4>3. /\ Redefines(Instr(prog, x)) /\ z = Redefinition(Instr(prog, x).obj, block, idx)
            /\ u = operand[s]
        BY <1>2, <1>6, <2>1, <3>2, <4>1, <4>2, NewReachingEntries
      <4>4. x \in CodePositions(prog)
        BY <1>2, <4>1, <4>2, CodePositionIntro
      <4>5. Instr(prog, x).obj # Absent
        BY <1>2, <4>3, <4>4, ProgramsAssumption DEF WellFormed
      <4>6. s \in SourceSites(prog) /\ Point(prog, s) = x
        <5>1. x[1] = block /\ x[2] = idx
          BY <4>2
        <5> QED
          BY <1>2, <4>2, <4>4, <4>5, <5>1, ObjectFacts
      <4>7. s \in DOMAIN operand
        BY <1>2, <4>6 DEF IInv, SitesInv
      <4>8. ~ Ahead(s)
        <5>1. ~ Asked(s)
          BY <1>1, NothingAsked
        <5>2. ~ Pending(block)
          BY <1>2 DEF TreeInv, BlockIsBefore
        <5>3. x[1] = block /\ x[2] = idx /\ ~ (idx > idx)
          BY <1>4, <4>2, NotAfter
        <5> QED
          BY <1>1, <4>6, <5>1, <5>2, <5>3 DEF Ahead
      <4>9. NoneNearer(operand[s], Point(prog, s))
        BY <4>7, <4>8 DEF WInv, WalkInv, RenamedToNearest
      <4>10. z.at = x
        BY <4>2, <4>3 DEF Redefinition
      <4> QED
        BY <4>3, <4>6, <4>9, <4>10
    <3> QED
      BY <3>1, <3>2
  <2> QED
    BY <1>1, <2>1, <2>2, NearestThen
<1>7. ChainsAreTight'
  BY <1>6 DEF ChainsAreTight
<1>8. idx' # 0
  BY <1>1, <1>4, NatIsNotBefore
<1> QED
  BY <1>1, <1>5, <1>7, <1>8, AdvanceNames
     DEF WalkInv, NamesReachNext, SearchIsTight, PhisReach, NamesReachThemselves

LEMMA AtZero == ASSUME NEW j \in Nat, NEW i \in 0 .. j + 1, ~ (i > 0) PROVE i = 0
OBVIOUS

LEMMA SeqFirst ==
  ASSUME NEW S, NEW s \in Seq(S), s # <<>>
  PROVE  1 \in DOMAIN s /\ Head(s) = s[1]
OBVIOUS

(* The block picked: what step on it does.                                 *)
LEMMA Picked ==
  ASSUME WInv, PickBlock
  PROVE  LET b == block'
             own == {NameValue(prog, n) : n \in DOMAIN prog.phis[b]} IN
         /\ b \in prog.blocks /\ 1 \in DOMAIN todo /\ b \in todo[1]
         /\ requests' = <<PhiRequests(b)>>
         /\ operand' = [s \in DOMAIN operand \cup PhiRequests(b) |->
                          IF s \in PhiRequests(b) THEN NameValue(prog, s.slot) ELSE operand[s]]
         /\ reaching' = [v \in DOMAIN reaching |-> IF v \in own THEN v ELSE reaching[v]]
         /\ idx' = 0 /\ pc = "pick block" /\ pc' = "visit"
         /\ UNCHANGED <<prog, insertedPhis>>
<1>1. PICK b \in Head(todo) :
        LET own == {NameValue(prog, n) : n \in DOMAIN prog.phis[b]} IN
        /\ block' = b
        /\ requests' = <<PhiRequests(b)>>
        /\ operand' = [s \in DOMAIN operand \cup PhiRequests(b) |->
                         IF s \in PhiRequests(b) THEN NameValue(prog, s.slot) ELSE operand[s]]
        /\ reaching' = [v \in DOMAIN reaching |-> IF v \in own THEN v ELSE reaching[v]]
  BY DEF PickBlock
<1>2. /\ idx' = 0 /\ pc = "pick block" /\ pc' = "visit" /\ todo # <<>>
      /\ UNCHANGED <<prog, insertedPhis>>
  BY DEF PickBlock, phiVars
<1>3. todo \in Seq(SUBSET prog.blocks)
  BY DEF WInv, IInv, TypeOK
<1>4. b \in prog.blocks /\ 1 \in DOMAIN todo /\ b \in todo[1]
  <2> DEFINE all == SUBSET prog.blocks
  <2>1. todo \in Seq(all)
    BY <1>3
  <2> HIDE DEF all
  <2>2. Head(todo) \in all
    BY <1>2, <2>1, SeqRest
  <2>3. 1 \in DOMAIN todo /\ Head(todo) = todo[1]
    BY <1>2, <2>1, SeqFirst
  <2> QED
    BY <1>1, <2>2, <2>3 DEF all
<1> QED
  BY <1>1, <1>2, <1>4

LEMMA WalkPick == WInv /\ PickBlock => WalkInv'
<1> SUFFICES ASSUME WInv, PickBlock
             PROVE  WalkInv'
  OBVIOUS
<1>1. PICK b, all, own :
        /\ b = block' /\ all = PhiRequests(b)
        /\ own = {NameValue(prog, n) : n \in DOMAIN prog.phis[b]}
  OBVIOUS
<1>2. /\ b \in prog.blocks /\ 1 \in DOMAIN todo /\ b \in todo[1]
      /\ requests' = <<all>>
      /\ operand' = [s \in DOMAIN operand \cup all |->
                       IF s \in all THEN NameValue(prog, s.slot) ELSE operand[s]]
      /\ reaching' = [v \in DOMAIN reaching |-> IF v \in own THEN v ELSE reaching[v]]
      /\ idx' = 0 /\ pc = "pick block" /\ pc' = "visit"
      /\ UNCHANGED <<prog, insertedPhis>>
  BY <1>1, Picked
<1>3. IInv /\ TreeInv /\ SitesAre /\ SimpleEdges(prog) /\ prog \in Programs /\ Walking'
  BY <1>2 DEF WInv, IInv, TypeOK, Walking
<1>4. \A s : Asked(s)' <=> s \in all
  <2>1. \A s : Asked(s)' <=> \E i \in DOMAIN requests' : s \in requests'[i]
    BY <1>2 DEF Asked, IsRequested
  <2> QED
    BY <1>2, <2>1, OfOne
<1>5. Pending(b) /\ \A c \in prog.blocks : Pending(c)' <=> Pending(c) /\ c # b
  <2>1. Pending(block')
    BY <1>2, <1>3, PendingPick
  <2>2. Pending(b)
    BY <1>1, <2>1
  <2>3. ASSUME NEW c \in prog.blocks
        PROVE  Pending(c)' <=> Pending(c) /\ c # b
    BY <1>1, <1>3, PendingPick
  <2> QED
    BY <2>2, <2>3
<1>6. \A s \in all : Point(prog, s) = <<b, 0>>
  BY <1>1, <1>2, <1>3, AskedThere DEF IInv, TypeOK
<1>7. ASSUME NEW s \in DOMAIN operand
      PROVE  (Ahead(s)' => Ahead(s)) /\ (~ Ahead(s)' => ~ Ahead(s) /\ s \notin all)
  <2>1. PICK q : q = Point(prog, s)
    OBVIOUS
  <2>2. q = <<q[1], q[2]>> /\ q[1] \in prog.blocks /\ q[2] \in 0 .. Len(prog.code[q[1]]) + 1 /\ q[2] \in Int
    BY <2>1, PointFacts
  <2>3. Ahead(s)' <=> \/ Pending(q[1])'
                      \/ q[1] = b /\ (q[2] > 0 \/ s \in all)
    BY <1>1, <1>2, <1>3, <1>4, <2>1, AheadThen
  <2>4. Ahead(s) <=> Pending(q[1])
    BY <1>2, <2>1 DEF Ahead, Walking
  <2>5. s \in all => q = <<b, 0>>
    BY <1>6, <2>1
  <2>6. ASSUME q[1] = b, ~ (q[2] > 0)
        PROVE  s \in all
    <3>1. Len(prog.code[b]) \in Nat /\ q[2] \in 0 .. Len(prog.code[b]) + 1
      BY <1>2, <1>3, <2>2, <2>6, CodeLength
    <3>2. q[2] = 0
      BY <2>6, <3>1, AtZero
    <3>3. Point(prog, s) = <<b, q[2]>>
      BY <2>1, <2>2, <2>6
    <3> QED
      BY <1>1, <1>2, <1>3, <2>2, <3>2, <3>3, SiteIsRequested
  <2> QED
    BY <1>5, <2>2, <2>3, <2>4, <2>5, <2>6
<1>8. ASSUME NEW s \in all
      PROVE  Ahead(s)'
  <2>1. PICK q : q = Point(prog, s)
    OBVIOUS
  <2>2. q[1] = b
    BY <1>6, <2>1
  <2> QED
    BY <1>1, <1>2, <1>3, <1>4, <2>1, <2>2, AheadThen
<1>9. AheadAreNames'
  <2> SUFFICES ASSUME NEW s \in DOMAIN operand', Ahead(s)'
               PROVE  operand'[s].kind = "name"
    BY DEF AheadAreNames
  <2>1. CASE s \in all
    BY <1>2, <2>1 DEF NameValue
  <2>2. CASE s \notin all
    <3>1. s \in DOMAIN operand /\ operand'[s] = operand[s]
      BY <1>2, <2>2
    <3>2. Ahead(s)
      BY <1>7, <3>1
    <3> QED
      BY <3>1, <3>2 DEF WInv, WalkInv, AheadAreNames
  <2> QED
    BY <2>1, <2>2
<1>10. ASSUME NEW s \in DOMAIN operand', ~ Ahead(s)'
       PROVE  NoneNearer(operand[s], Point(prog, s))'
  <2>1. s \notin all
    BY <1>8, <1>10
  <2>2. s \in DOMAIN operand /\ operand'[s] = operand[s]
    BY <1>2, <2>1
  <2>3. ~ Ahead(s)
    BY <1>7, <1>10, <2>2
  <2>4. PICK u, y : u = operand[s] /\ y = Point(prog, s)
    OBVIOUS
  <2>5. NoneNearer(u, y)
    BY <2>2, <2>3, <2>4 DEF WInv, WalkInv, RenamedToNearest
  <2> QED
    BY <1>2, <2>2, <2>4, <2>5, NearestThen
<1>11. RenamedToNearest'
  BY <1>10 DEF RenamedToNearest
<1>12. NamesReachHere'
  <2> SUFFICES ASSUME NEW n \in DefinedNames(prog)
               PROVE  NoneNearer(reaching[NameValue(prog, n)], <<block, idx>>)'
    BY <1>2 DEF NamesReachHere
  <2>1. PICK m, u, x : m = NameValue(prog, n) /\ u = reaching'[m] /\ x = <<b, 0>>
    OBVIOUS
  <2>2. m \in DOMAIN reaching /\ m.of = n /\ m.at = DefPosition(prog, n)
    BY <1>3, <2>1, NamesAreVersions
  <2>3. NoneNearer(u, x)
    <3>1. CASE m \in own
      <4>1. PICK k \in DOMAIN prog.phis[b] : m = NameValue(prog, k)
        BY <1>1, <3>1
      <4>2. k = n
        BY <2>2, <4>1 DEF NameValue
      <4> DEFINE z == <<b, n>>
      <4>3. z \in SourcePhis(prog)
        <5>1. z \in {b} \X DOMAIN prog.phis[b]
          BY <4>1, <4>2
        <5> HIDE DEF z
        <5> QED
          BY <1>2, <5>1 DEF SourcePhis
      <4> HIDE DEF z
      <4>4. x \in DefPositions(prog, n)
        BY <1>2, <2>1, <4>3 DEF DefPositions, z
      <4>5. DefPosition(prog, n) = x
        BY <1>3, <4>4, DefPositionFacts, ProgramsAssumption DEF InSSAForm
      <4>6. u = m
        BY <1>2, <2>1, <2>2, <3>1
      <4> QED
        BY <2>2, <4>5, <4>6, NearestAtOwn
    <3>2. CASE m \notin own
      <4>1. u = reaching[m]
        BY <1>2, <2>1, <2>2, <3>2
      <4> QED
        BY <1>2, <2>1, <4>1 DEF WInv, WalkInv, NamesReachNext
    <3> QED
      BY <3>1, <3>2
  <2> QED
    BY <1>1, <1>2, <2>1, <2>3, NearestThen
<1>13. ASSUME NEW z \in DOMAIN reaching', z.kind # "name"
       PROVE  NoneNearer(reaching[z], z.at)'
  <2>1. PICK u : u = reaching[z]
    OBVIOUS
  <2>2. z \notin own
    BY <1>1, <1>13 DEF NameValue
  <2>3. z \in DOMAIN reaching /\ reaching'[z] = u
    BY <1>2, <2>1, <2>2
  <2>4. NoneNearer(u, z.at)
    BY <1>13, <2>1, <2>3 DEF WInv, WalkInv, ChainsAreTight
  <2> QED
    BY <1>2, <2>3, <2>4, NearestThen
<1>14. ChainsAreTight'
  BY <1>13 DEF ChainsAreTight
<1>15. PhisReach'
  <2> SUFFICES ASSUME NEW n \in DefinedNames(prog),
                      <<b, n>> \in insertedPhis, ~ Asked(NameSite(b, 0, n))'
               PROVE  FALSE
    BY <1>1, <1>2 DEF PhisReach
  <2>1. PICK s : s = NameSite(b, 0, n)
    OBVIOUS
  <2>2. ~ Asked(s)'
    BY <2>1
  <2>3. n \in Names
    BY DEF DefinedNames
  <2>4. s \in all
    BY <1>1, <2>1, <2>3 DEF PhiRequests
  <2> QED
    BY <1>4, <2>2, <2>4
<1> QED
  BY <1>2, <1>9, <1>11, <1>12, <1>14, <1>15
     DEF WalkInv, NamesReachNext, SearchIsTight, NamesReachThemselves

(* A step that changes nothing.                                            *)
LEMMA WalkStutter == WInv /\ UNCHANGED vars => WalkInv'
<1> SUFFICES ASSUME WInv, UNCHANGED vars
             PROVE  WalkInv'
  OBVIOUS
<1>1. UNCHANGED <<prog, pc, insertedPhis, todo, block, idx, requests, site, probe, operand, reaching>>
  BY DEF vars, phiVars, walkVars, renameVars
<1>2. \A s : Ahead(s)' <=> Ahead(s)
  BY <1>1 DEF Ahead, Pending, Walking, Asked, IsRequested
<1>3. AheadAreNames' /\ RenamedToNearest'
  BY <1>1, <1>2, OperandsRest DEF WInv, WalkInv
<1>4. ChainsAreTight'
  BY <1>1, TightRest DEF WInv, WalkInv
<1>5. \A v, x : NoneNearer(v, x)' <=> NoneNearer(v, x)
  BY <1>1, NearestStays
<1>6. NamesReachHere' /\ PhisReach' /\ NamesReachThemselves'
  <2>1. CASE Walking
    <3>1. \A s : Asked(s)' <=> Asked(s)
      BY <1>1 DEF Asked, IsRequested
    <3>2. Walking'
      BY <1>1, <2>1 DEF Walking
    <3> QED
      BY <1>1, <2>1, <3>1, <3>2, HereRest DEF NamesReachThemselves, Walking
  <2>2. CASE ~ Walking
    BY <1>1, <2>2 DEF NamesReachHere, PhisReach, NamesReachThemselves, Walking, WInv, WalkInv
  <2> QED
    BY <2>1, <2>2
<1>7. NamesReachNext'
  <2> SUFFICES ASSUME pc = "pick block", NEW i \in DOMAIN todo, NEW b \in todo[i],
                      NEW n \in DefinedNames(prog)
               PROVE  NoneNearer(reaching[NameValue(prog, n)], <<b, 0>>)'
    BY <1>1 DEF NamesReachNext
  <2>1. PICK v : v = reaching[NameValue(prog, n)]
    OBVIOUS
  <2>2. NoneNearer(v, <<b, 0>>)
    BY <2>1 DEF WInv, WalkInv, NamesReachNext
  <2> QED
    BY <1>1, <2>1, <2>2, NearestThen
<1>8. SearchIsTight'
  <2> SUFFICES ASSUME pc = "search"
               PROVE  NoneNearer(NextProbe, <<block, idx>>)'
    BY <1>1 DEF SearchIsTight
  <2>1. PICK v, x : v = NextProbe /\ x = <<block, idx>>
    OBVIOUS
  <2>2. NoneNearer(v, x)
    BY <2>1 DEF WInv, WalkInv, SearchIsTight
  <2>3. NextProbe' = v
    BY <1>1, <2>1 DEF NextProbe
  <2> QED
    BY <1>1, <2>1, <2>2, <2>3, NearestThen
<1> QED
  BY <1>3, <1>4, <1>6, <1>7, <1>8 DEF WalkInv

LEMMA WNext == WInv /\ [Next]_vars => WInv'
<1> SUFFICES ASSUME WInv, [Next]_vars
             PROVE  WInv'
  OBVIOUS
<1>1. IInv /\ PhisBelow /\ TreeInv /\ SitesAre /\ AskedHere /\ SiteIsHere /\ SimpleEdges(prog)
  BY DEF WInv
<1>2. IInv' /\ PhisBelow' /\ TreeInv' /\ SitesAre'
  BY <1>1, NextInv, PhisBelowNext, TreeNext, SitesNext
<1>3. AskedHere' /\ SiteIsHere'
  BY <1>1, AskedNext
<1>4. SimpleEdges(prog)'
  <2>1. prog' = prog
    BY DEF Next, Construct, Walk, Finished, PickName, InsertPhis, NameDone, SubtreeDone, WalkDone,
           Begin, Follow, Rename, Advance, LeaveBlock, PickBlock, vars
  <2> QED
    BY <1>1, <2>1
<1>5. WalkInv'
  <2>1. CASE PickName \/ InsertPhis
    BY <2>1, WalkEarly
  <2>2. CASE NameDone
    <3>1. pc' \in {"pick name", "pick block"}
      BY <2>2 DEF NameDone
    <3> QED
      BY <2>2, <3>1, WalkEarly, WalkStart
  <2>3. CASE SubtreeDone \/ WalkDone \/ LeaveBlock
    BY <2>3, WalkSubtree, WalkEnd, WalkLeave
  <2>4. CASE Begin \/ Follow \/ Rename
    BY <2>4, WalkBegin, WalkFollow, WalkRename
  <2>5. CASE Advance \/ PickBlock
    BY <2>5, WalkAdvance, WalkPick
  <2>6. CASE UNCHANGED vars
    BY <2>6, WalkStutter
  <2> QED
    BY <2>1, <2>2, <2>3, <2>4, <2>5, <2>6 DEF Next, Construct, Walk, Finished
<1> QED
  BY <1>1, <1>2, <1>3, <1>4, <1>5 DEF WInv

LEMMA WalkInvariance ==
  ASSUME \A p \in Programs : SimpleEdges(p)
  PROVE  Spec => []WInv
<1>1. Init => WInv
  <2> SUFFICES ASSUME Init
               PROVE  WInv
    OBVIOUS
  <2>1. IInv /\ TreeInv /\ SitesAre /\ WalkInv
    BY InitInv, TreeInit, SitesInit, WalkInit
  <2>2. PhisBelow /\ AskedHere /\ SiteIsHere
    BY DEF Init, PhisBelow, AskedHere, SiteIsHere, Walking
  <2>3. SimpleEdges(prog)
    BY DEF Init
  <2> QED
    BY <2>1, <2>2, <2>3 DEF WInv
<1> QED
  BY <1>1, WNext, PTL DEF Spec

(* The operands behind the walk are final.                                 *)
LEMMA BehindIsFinal ==
  ASSUME WInv, [Next]_vars, NEW s \in DOMAIN operand, ~ Ahead(s)
  PROVE  operand'[s] = operand[s]
<1>1. CASE UNCHANGED operand
  BY <1>1
<1>2. CASE Rename
  <2>1. operand' = [operand EXCEPT ![site] = NextProbe] /\ pc = "search"
    BY <1>2 DEF Rename
  <2>2. s # site
    BY <2>1, SearchedName
  <2> QED
    BY <2>1, <2>2
<1>3. CASE InsertPhis
  BY <1>3 DEF Ahead, InsertPhis
<1>4. CASE PickBlock
  <2>1. PICK b, all : b = block' /\ all = PhiRequests(b)
    OBVIOUS
  <2>2. /\ operand' = [z \in DOMAIN operand \cup all |->
                         IF z \in all THEN NameValue(prog, z.slot) ELSE operand[z]]
        /\ b \in prog.blocks
    BY <1>4, <2>1, Picked
  <2>3. s \notin all
    <3> SUFFICES ASSUME s \in all
                 PROVE  FALSE
      OBVIOUS
    <3>1. Point(prog, s) = <<b, 0>>
      BY <2>1, <2>2, AskedThere DEF WInv, IInv, TypeOK
    <3>2. Pending(b)
      BY <1>4, <2>1, <2>2, PendingPick DEF WInv
    <3> QED
      BY <3>1, <3>2 DEF Ahead
  <2> QED
    BY <2>2, <2>3
<1> QED
  BY <1>1, <1>2, <1>3, <1>4
     DEF Next, Construct, Walk, Finished, PickName, NameDone, SubtreeDone, WalkDone, Begin, Follow,
         Advance, LeaveBlock, vars

LEMMA RenamesOnce ==
  ASSUME WInv, [Next]_vars
  PROVE  [\A s \in DOMAIN operand : operand[s].kind # "name" => operand'[s] = operand[s]]_vars
<1> SUFFICES ASSUME NEW s \in DOMAIN operand, operand[s].kind # "name"
             PROVE  operand'[s] = operand[s]
  OBVIOUS
<1>1. ~ Ahead(s)
  BY DEF WInv, WalkInv, AheadAreNames
<1> QED
  BY <1>1, BehindIsFinal

(* Nothing is left to visit when the walk is done.                         *)
LEMMA NothingIsLeft == Spec => [](pc = "done" => todo = <<>>)
<1>1. Init => (pc = "done" => todo = <<>>)
  BY DEF Init
<1>2. (pc = "done" => todo = <<>>) /\ [Next]_vars => (pc = "done" => todo = <<>>)'
  BY DEF Next, Construct, Walk, Finished, PickName, InsertPhis, NameDone, SubtreeDone, WalkDone,
         Begin, Follow, Rename, Advance, LeaveBlock, PickBlock, vars, walkVars
<1> QED
  BY <1>1, <1>2, PTL DEF Spec

LEMMA NoneIsAhead ==
  ASSUME pc = "done", todo = <<>>, NEW s
  PROVE  ~ Ahead(s)
<1>1. DOMAIN <<>> = {}
  OBVIOUS
<1> QED
  BY <1>1 DEF Ahead, Pending, Walking

LEMMA VersionsAre ==
  ASSUME IInv, NEW w \in Versions
  PROVE  IsVersion(w)
<1>1. CASE \E n \in DefinedNames(prog) : w = NameValue(prog, n)
  <2>1. PICK n \in DefinedNames(prog) : w = NameValue(prog, n)
    BY <1>1
  <2>2. w.of = n /\ w.kind = "name"
    BY <2>1 DEF NameValue
  <2> QED
    BY <2>1, <2>2 DEF IsVersion
<1>2. CASE \E x \in insertedPhis : w = PhiValue(x[1], x[2])
  <2>1. PICK x \in insertedPhis : w = PhiValue(x[1], x[2])
    BY <1>2
  <2>2. w.of = x[2] /\ w.kind = "phi" /\ w.at[1] = x[1]
    BY <2>1 DEF PhiValue
  <2>3. x = <<x[1], x[2]>>
    BY DEF IInv, TypeOK
  <2> QED
    BY <2>1, <2>2, <2>3 DEF IsVersion
<1>3. CASE \E x \in CodePositions(prog) : /\ Redefines(Instr(prog, x))
                                          /\ w = Redefinition(Instr(prog, x).obj, x[1], x[2])
  <2>1. PICK x \in CodePositions(prog) : /\ Redefines(Instr(prog, x))
                                         /\ w = Redefinition(Instr(prog, x).obj, x[1], x[2])
    BY <1>3
  <2>2. x = <<x[1], x[2]>>
    BY CodePositionFacts DEF IInv, TypeOK
  <2>3. w.kind = "redef" /\ w.at = x
    BY <2>1, <2>2 DEF Redefinition
  <2> QED
    BY <2>1, <2>3 DEF IsVersion
<1> QED
  BY <1>1, <1>2, <1>3 DEF Versions

(* Each operand is in the end the nearest version of its name.             *)
THEOREM NearestVersionsFound ==
  ASSUME \A p \in Programs : SimpleEdges(p)
  PROVE  Spec => []OperandsAreNearest
<1>1. WInv /\ (pc = "done" => todo = <<>>) => OperandsAreNearest
  <2> SUFFICES ASSUME WInv, pc = "done", todo = <<>>, NEW s \in DOMAIN operand,
                      NEW w \in Versions, w.of = operand[s].of,
                      Dominates(prog, w.at, Point(prog, s))
               PROVE  w = operand[s] \/ Dominates(prog, w.at, operand[s].at)
    BY DEF OperandsAreNearest
  <2>1. IsVersion(w)
    BY VersionsAre DEF WInv
  <2>2. NoneNearer(operand[s], Point(prog, s))
    BY NoneIsAhead DEF WInv, WalkInv, RenamedToNearest
  <2> QED
    BY <2>1, <2>2, Nearest
<1> QED
  BY <1>1, WalkInvariance, NothingIsLeft, PTL

(* An operand that was given a version is never renamed again.             *)
THEOREM OperandsAreFinal ==
  ASSUME \A p \in Programs : SimpleEdges(p)
  PROVE  Spec => RenamedOnce
<1>1. Spec => []WInv
  BY WalkInvariance
<1>2. WInv /\ [Next]_vars
        => [\A s \in DOMAIN operand : operand[s].kind # "name" => operand'[s] = operand[s]]_vars
  BY RenamesOnce
<1> QED
  BY <1>1, <1>2, PTL DEF Spec, RenamedOnce
=============================================================================
