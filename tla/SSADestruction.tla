-------------------------- MODULE SSADestruction ---------------------------
(***************************************************************************)
(* memoir/lower: SSADestructionPass, SSADestructionVisitor and the search  *)
(* of LowerFold for the RetPHIs of a fold.                                 *)
(*                                                                         *)
(* The pass is given the function SSA construction leaves.  Its visitors   *)
(* emit a call of the runtime for each operation and note, in              *)
(* coalesced_values, which value stands for the operation's result: for a  *)
(* new version the object it was made from, for a new object the runtime's *)
(* result.  Folds and allocations are staged and visited afterwards.  The  *)
(* notes are then carried out one value at a time, and what is no longer   *)
(* used is deleted.                                                        *)
(*                                                                         *)
(* Abstracted: the arguments of the runtime calls, results that are not    *)
(* objects, nested objects, types.  All folds call one function.           *)
(***************************************************************************)
EXTENDS SSAConstruction

CONSTANT MaxRun   (* the number of instructions a run executes             *)

VARIABLES
  stage,       (* where the pass is                                        *)
  low,         (* the value each operand of the function holds             *)
  coalesced,   (* coalesced_values                                         *)
  staged,      (* _staged: the instructions visited after the walk         *)
  split,       (* the folds lowered, each at the head of a block now       *)
  cursor,      (* the block do_coalesce is in                              *)
  layout,      (* blocks do_coalesce has not come to                       *)
  victim,      (* the value do_coalesce replaces                           *)
  candidate,   (* replacement_value, in the loop of find_replacement       *)
  replaced,    (* replaced_values                                          *)
  rblock, ridx, (* the next instruction of the run                         *)
  steps,       (* instructions executed                                    *)
  sourceRef,   (* source: the object each name refers to                   *)
  ref          (* lowered: the object each value refers to                 *)

lowerVars == <<stage, low, coalesced, staged, split, cursor, layout, victim, candidate, replaced>>
execVars == <<rblock, ridx, steps, sourceRef, ref>>
allVars == <<vars, lowerVars, execVars>>

(* The result of the runtime's call that makes the object n.               *)
Lowered(n) == [kind |-> "lowered", of |-> n, at |-> DefPosition(prog, n)]

(* Operands of the rewritten function; what visitPHINode and               *)
(* visitReturnInst look up are not.                                        *)
IsOperand(s) == s.slot \in {"obj", "in"} \/ s.edge # Absent

ObjectAt(x) == operand[ObjSite(x[1], x[2])]

(* A new version of an object: the redefinition the instruction at x makes.*)
VersionAt(x) == Redefinition(Instr(prog, x).obj, x[1], x[2])

-----------------------------------------------------------------------------
(* SSADestructionPass::run: the walk and the staged instructions           *)

LInit ==
  /\ Init
  /\ stage = "idle"
  /\ low = [s \in {} |-> NoValue]
  /\ coalesced = [v \in {} |-> NoValue]
  /\ staged = {}
  /\ split = {}
  /\ cursor = prog.entry
  /\ layout = {}
  /\ victim = NoValue
  /\ candidate = NoValue
  /\ replaced = [v \in {} |-> NoValue]

(* The versions made by updates, by calls and by UsePHIs.                  *)
WalkedVersions ==
  {VersionAt(x) : x \in {y \in CodePositions(prog) : /\ Redefines(Instr(prog, y))
                                                     /\ Instr(prog, y).op # "fold"}}

(* The new objects of copies.                                              *)
Copies ==
  {NameValue(prog, n) : n \in {Instr(prog, x).def :
     x \in {y \in CodePositions(prog) : /\ Instr(prog, y).op = "copy"
                                        /\ Instr(prog, y).def # Absent}}}

IsStaged(ins) == ins.op = "fold" \/ (ins.op = "alloc" /\ ins.def # Absent)

(* MUTANT: an insertion stands for its input instead of its object.        *)
StandsForInput(v) ==
  IF v \in Copies THEN Lowered(v.of)
  ELSE IF Instr(prog, v.at).in # Absent THEN operand[InSite(v.at[1], v.at[2])]
  ELSE ObjectAt(v.at)

(* MUTANT: a copy stands for what it is a copy of.                         *)
StandsForOriginal(v) == ObjectAt(v.at)

(* The value coalesced with a value: for a version the object it was made  *)
(* from, as the operand is at the time of the visit.                       *)
StandsFor(v) == IF v \in Copies THEN Lowered(v.of) ELSE ObjectAt(v.at)

(* The walk.  No visitor changes an operand that another one reads, so its *)
(* order is of no consequence.                                             *)
Visit ==
  /\ pc = "done"
  /\ stage = "idle"
  /\ low' = [s \in {t \in DOMAIN operand : IsOperand(t)} |-> operand[s]]
  /\ coalesced' = [v \in WalkedVersions \cup Copies |-> StandsFor(v)]
  /\ staged' = {x \in CodePositions(prog) : IsStaged(Instr(prog, x))}
  /\ stage' = "staged"
  /\ UNCHANGED <<vars, split, cursor, layout, victim, candidate, replaced>>

(* visitAllocInst.                                                         *)
LowerAlloc ==
  /\ stage = "staged"
  /\ \E x \in staged :
       LET ins == Instr(prog, x) IN
       /\ ins.op = "alloc"
       /\ coalesced' = Put(coalesced, NameValue(prog, ins.def), Lowered(ins.def))
       /\ staged' = staged \ {x}
  /\ UNCHANGED <<vars, stage, low, split, cursor, layout, victim, candidate, replaced>>

(* The RetPHIs of folds among the uses of a value.                         *)
RetPhis(v) ==
  {VersionAt(y) : y \in {z \in CodePositions(prog) : /\ Instr(prog, z).op = "fold"
                                                     /\ Instr(prog, z).mutates
                                                     /\ ObjectAt(z) = v}}

(* Two positions of a block are still in one block when no fold that was   *)
(* lowered between them has split it.                                      *)
SameBlock(x, y, cuts) ==
  /\ x[1] = y[1]
  /\ \A c \in cuts : c[1] = x[1] => (c[2] <= x[2] <=> c[2] <= y[2])

(* MUTANT: those of the collection the fold runs over.                     *)
ClosedRetPhisOfInput(x) ==
  IF Instr(prog, x).in = Absent THEN {} ELSE RetPhis(operand[InSite(x[1], x[2])])

(* The RetPHIs among the uses of the fold's closed object.                 *)
ClosedRetPhis(x) == IF Instr(prog, x).obj = Absent THEN {} ELSE RetPhis(ObjectAt(x))

(* Those in the block of the fold, after lower_fold_header has split it.   *)
OwnRetPhis(x) == {r \in ClosedRetPhis(x) : SameBlock(x, r.at, split \cup {x})}

(* The search keeps the RetPHI in the fold's block when it compares two.   *)
Choices(x) ==
  IF Cardinality(ClosedRetPhis(x)) <= 1 THEN ClosedRetPhis(x)
  ELSE IF Cardinality(OwnRetPhis(x)) = 1 THEN OwnRetPhis(x)
  ELSE {}

(* It gives up when neither is, or both are.  With a third RetPHI it       *)
(* depends on the order of the uses which two it compares first.           *)
MayGiveUp(x) ==
  /\ Cardinality(ClosedRetPhis(x)) > 1
  /\ Cardinality(OwnRetPhis(x)) # 1 \/ Cardinality(ClosedRetPhis(x)) > 2

(* visitFoldInst and lower_fold.                                           *)
LowerFold ==
  /\ stage = "staged"
  /\ \E x \in staged :
       /\ Instr(prog, x).op = "fold"
       /\ ClosedRetPhis(x) = {} \/ Choices(x) # {}
       /\ coalesced' = [v \in DOMAIN coalesced \cup Choices(x) |->
                          IF v \in Choices(x) THEN ObjectAt(v.at) ELSE coalesced[v]]
       /\ split' = split \cup {x}
       /\ staged' = staged \ {x}
  /\ UNCHANGED <<vars, stage, low, cursor, layout, victim, candidate, replaced>>

(* MEMOIR_UNREACHABLE: the compiler stops.                                 *)
GiveUp ==
  /\ stage = "staged"
  /\ \E x \in staged : Instr(prog, x).op = "fold" /\ MayGiveUp(x)
  /\ stage' = "unreachable"
  /\ UNCHANGED <<vars, low, coalesced, staged, split, cursor, layout, victim, candidate, replaced>>

(* do_coalesce begins with the entry, the first block of the function.     *)
StagesDone ==
  /\ stage = "staged"
  /\ staged = {}
  /\ stage' = "layout"
  /\ cursor' = prog.entry
  /\ layout' = prog.blocks \ {prog.entry}
  /\ UNCHANGED <<vars, low, coalesced, staged, split, victim, candidate, replaced>>

-----------------------------------------------------------------------------
(* do_coalesce, cleanup                                                    *)

(* The values of a block that do_coalesce has yet to come to.              *)
Waiting(b) == {v \in DOMAIN coalesced \ DOMAIN replaced : v.at[1] = b}

FirstWaiting(b) == {v \in Waiting(b) : \A w \in Waiting(b) : v.at[2] <= w.at[2]}

Coalesce ==
  /\ stage = "layout"
  /\ \E v \in FirstWaiting(cursor) :
       /\ victim' = v
       /\ candidate' = coalesced[v]
  /\ stage' = "find"
  /\ UNCHANGED <<vars, low, coalesced, staged, split, cursor, layout, replaced>>

(* MUTANT: find_replacement returns the value it is given.                 *)
NeverReplaced(v) == FALSE

WasReplaced(v) == v \in DOMAIN replaced

(* find_replacement: the chain of values replaced so far.                  *)
FollowReplacement ==
  /\ stage = "find"
  /\ WasReplaced(candidate)
  /\ candidate' = replaced[candidate]
  /\ UNCHANGED <<vars, stage, low, coalesced, staged, split, cursor, layout, victim, replaced>>

(* MUTANT: the note is made for the replacement.                           *)
NotedBackwards(v, w) == Put(replaced, w, v)

Noted(v, w) == Put(replaced, v, w)

(* replaceAllUsesWith, and the note that it was done.                      *)
Replace ==
  /\ stage = "find"
  /\ ~ WasReplaced(candidate)
  /\ low' = [s \in DOMAIN low |-> IF low[s] = victim THEN candidate ELSE low[s]]
  /\ replaced' = Noted(victim, candidate)
  /\ stage' = "layout"
  /\ UNCHANGED <<vars, coalesced, staged, split, cursor, layout, victim, candidate>>

(* The other blocks come in the order of the function's list, of which the *)
(* dominator tree says nothing.                                            *)
NextInLayout ==
  /\ stage = "layout"
  /\ Waiting(cursor) = {}
  /\ \E b \in layout : cursor' = b /\ layout' = layout \ {b}
  /\ UNCHANGED <<vars, stage, low, coalesced, staged, split, victim, candidate, replaced>>

(* cleanup: every value that was coalesced is deleted, and what still uses *)
(* it is left with null.                                                   *)
Cleanup ==
  /\ stage = "layout"
  /\ Waiting(cursor) = {}
  /\ layout = {}
  /\ low' = [s \in DOMAIN low |-> IF low[s] \in DOMAIN coalesced THEN NoValue ELSE low[s]]
  /\ stage' = "lowered"
  /\ UNCHANGED <<vars, coalesced, staged, split, cursor, layout, victim, candidate, replaced>>

Destruct ==
  \/ Visit \/ LowerAlloc \/ LowerFold \/ GiveUp \/ StagesDone
  \/ Coalesce \/ FollowReplacement \/ Replace \/ NextInLayout \/ Cleanup

-----------------------------------------------------------------------------
(* The run of the lowered function, in lockstep with the source.  A value  *)
(* of the lowered function refers to an object, as a name of the source    *)
(* does, so the two do the same when they refer to the same objects.       *)

RInit ==
  /\ LInit
  /\ rblock = prog.entry
  /\ ridx = 1
  /\ steps = 0
  /\ sourceRef = [n \in prog.args |-> <<"arg", n>>]
  /\ ref = [v \in {NameValue(prog, n) : n \in prog.args} |-> <<"arg", v.of>>]

CanRun == stage = "lowered" /\ steps < MaxRun

AtCode == CanRun /\ ridx <= Len(prog.code[rblock])

Current == prog.code[rblock][ridx]

(* The value that holds the result of an instruction that makes an object. *)
Result(ins) == IF NameValue(prog, ins.def) \in DOMAIN coalesced
               THEN Lowered(ins.def) ELSE NameValue(prog, ins.def)

RunInstruction ==
  /\ AtCode
  /\ LET n == Current.def
         o == <<"new", steps + 1>>
     IN  IF n = Absent THEN UNCHANGED <<sourceRef, ref>>
         ELSE /\ sourceRef' = Put(sourceRef, n, o)
              /\ ref' = Put(ref, Result(Current), o)
  /\ ridx' = ridx + 1
  /\ steps' = steps + 1
  /\ UNCHANGED <<vars, lowerVars, rblock>>

(* Control takes an edge: the PHIs of the target take their values.        *)
RunBranch ==
  /\ CanRun
  /\ ridx > Len(prog.code[rblock])
  /\ \E k \in DOMAIN prog.succ[rblock] :
       LET t == prog.succ[rblock][k]
           e == <<rblock, k>>
           own == DOMAIN prog.phis[t]
           phis == {NameValue(prog, n) : n \in own}
                     \cup {PhiValue(t, n) : n \in {m \in Names : <<t, m>> \in insertedPhis}}
           Incoming(v) == low[PhiSite(t, v.of, e)]
           defined == {v \in phis : Incoming(v) \in DOMAIN ref}
       IN  /\ rblock' = t
           /\ ref' = [v \in DOMAIN ref \cup defined |->
                        IF v \in defined THEN ref[Incoming(v)] ELSE ref[v]]
           /\ sourceRef' = [n \in DOMAIN sourceRef \cup own |->
                              IF n \in own THEN sourceRef[prog.phis[t][n][e]] ELSE sourceRef[n]]
  /\ ridx' = 1
  /\ steps' = steps + 1
  /\ UNCHANGED <<vars, lowerVars>>

(* The run has returned or is cut off, or the compiler has stopped.        *)
Stopped ==
  /\ \/ stage = "lowered" /\ steps = MaxRun
     \/ stage = "lowered" /\ ridx > Len(prog.code[rblock]) /\ prog.succ[rblock] = <<>>
     \/ stage = "unreachable"
  /\ UNCHANGED allVars

RNext ==
  \/ Construct /\ UNCHANGED <<lowerVars, execVars>>
  \/ Destruct /\ UNCHANGED execVars
  \/ RunInstruction \/ RunBranch
  \/ Stopped

(* Both passes are sequential code that nothing interrupts.                *)
RSpec ==
  /\ RInit
  /\ [][RNext]_allVars
  /\ WF_allVars(Construct /\ UNCHANGED <<lowerVars, execVars>>)
  /\ WF_allVars(Destruct /\ UNCHANGED execVars)

-----------------------------------------------------------------------------
(* Properties                                                              *)

(* The values of a function that is being lowered.                         *)
LoweredValues == Values \cup [kind : {"lowered"}, of : Names, at : Positions]

Stages == {"idle", "staged", "layout", "find", "lowered", "unreachable"}

(* Every variable of the pass has its type.                                *)
LowerTypeOK ==
  /\ stage \in Stages
  /\ DOMAIN low \subseteq DOMAIN operand
  /\ low \in [DOMAIN low -> LoweredValues]
  /\ DOMAIN coalesced \subseteq Values
  /\ coalesced \in [DOMAIN coalesced -> LoweredValues]
  /\ staged \subseteq CodePositions(prog)
  /\ split \subseteq CodePositions(prog)
  /\ cursor \in prog.blocks
  /\ layout \subseteq prog.blocks
  /\ victim \in Values \cup {NoValue}
  /\ candidate \in LoweredValues \cup {NoValue}
  /\ DOMAIN replaced \subseteq DOMAIN coalesced
  /\ replaced \in [DOMAIN replaced -> LoweredValues]

(* Coalescing replaces a version by the object it is a version of: the     *)
(* operand of an instruction never becomes one of another object.          *)
LowKeepsNames == \A s \in DOMAIN low : low[s].of = NameAt(prog, s)

(* A value that was replaced is no operand's again, although replacements  *)
(* are noted before they are carried out, in an order unrelated to how     *)
(* they depend on one another.  So cleanup deletes nothing that is in use. *)
NothingDangles ==
  /\ \A s \in DOMAIN low : low[s] \notin DOMAIN replaced
  /\ stage = "lowered" => \A s \in DOMAIN low : low[s] \notin DOMAIN coalesced

(* No version is left: what an operand refers to exists at run time.       *)
NoVersionIsLeft ==
  stage = "lowered" => \A s \in DOMAIN low : low[s].kind # "redef"

(* Construction followed by destruction gives each instruction the objects *)
(* it had in the source, on every path and for every iteration.            *)
RoundTrip ==
  AtCode =>
    \A s \in {t \in DOMAIN low : t.at = <<rblock, ridx>> /\ t.edge = Absent} :
      /\ low[s] \in DOMAIN ref
      /\ ref[low[s]] = sourceRef[NameAt(prog, s)]

(* LowerFold can tell the RetPHIs of a closed object apart.                *)
RetPhisAreTold == stage # "unreachable"

(* find_replacement ends on every chain, and the pass comes to its end.    *)
LoweringEnds == <>(stage \in {"lowered", "unreachable"})
=============================================================================
