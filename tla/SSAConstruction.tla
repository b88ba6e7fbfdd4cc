-------------------------- MODULE SSAConstruction --------------------------
(***************************************************************************)
(* memoir/raise: SSAConstructionPass and SSAConstructionVisitor.           *)
(*                                                                         *)
(* One function body is rewritten from operations that mutate collections  *)
(* in place to operations that return a new version of the collection.     *)
(* The pass first inserts PHIs for every name on its iterated dominance    *)
(* frontier, then walks the dominator tree in preorder, replacing each     *)
(* operand by its reaching definition.  The walk keeps one map,            *)
(* reaching_definitions, that is never popped when it leaves a subtree:    *)
(* update_reaching_definition follows the chain of versions until it finds *)
(* one that dominates the program point.                                   *)
(*                                                                         *)
(* Abstracted: types, debug information, the values written and the        *)
(* indices (only object operands matter here), the clones made afterwards  *)
(* of the bodies shared by several folds.                                  *)
(***************************************************************************)
EXTENDS ControlFlow

CONSTANTS
  Names,     (* the names of objects: arguments and object-typed values    *)
  Absent,    (* no operand, no definition, no edge                         *)
  UsePhis,   (* the option memoir-enable-use-phis                          *)
  Programs   (* the function bodies the pass may be given                  *)

(***************************************************************************)
(* A program is an analysed graph with                                     *)
(*   args : the names that are arguments,                                  *)
(*   phis : phis[b] maps each PHI the source has in b to its incoming      *)
(*          names, one for each edge into b,                               *)
(*   code : code[b] is the sequence of the other instructions of b.        *)
(* An instruction is a record [op, obj, in, def, mutates]: obj is the      *)
(* object it updates, reads or uses; in is a second object operand (the    *)
(* input keyword of an insertion, the collection a fold runs over); def is *)
(* the name its result defines; mutates says, of a fold, that its body     *)
(* mutates the parameter bound to the closed object obj.                   *)
(*   mut    : MutWrite, MutInsert, MutRemove, MutClear                     *)
(*   read   : Read, Get, Has                                               *)
(*   access : Size (an AccessInst that is neither a read nor an update)    *)
(*   copy   : Copy, Keys, of which AccessInst::classof says no             *)
(*   use    : an instruction of LLVM with an object operand                *)
(*   alloc  : an allocation                                                *)
(*   call   : a call of a function that is not one of MEMOIR's             *)
(*   fold   : FoldInst                                                     *)
(*   ret    : the return                                                   *)
(* A fold or a call with several objects is written as several, one after  *)
(* another, in the order in which its visitor renames them: a fold has its *)
(* collection in the first of them, its initial value in a use before it   *)
(* and its result in the last.  The chains of different names are apart,   *)
(* so this is what the visitor does, if the names are different; one that  *)
(* is passed twice would keep its version in both operands, and is not     *)
(* among the programs.                                                     *)
(***************************************************************************)
Ops == {"mut", "read", "access", "copy", "use", "alloc", "call", "fold", "ret"}

Blocks == UNION {p.blocks : p \in Programs}

(* Positions: 0 holds the PHIs of a block, -1 of the entry the arguments.  *)
Positions == Blocks \X Int

(* A value of the rewritten program: the name itself, an inserted PHI, or  *)
(* the redefinition an instruction gets (the new update, RetPHI, UsePHI).  *)
Values == [kind : {"name", "phi", "redef"}, of : Names, at : Positions]

NoValue == [kind |-> "null", of |-> Absent, at |-> <<Absent, 0>>]

(* An object operand.  Operands "obj" and "in" of the instruction at a     *)
(* position, the incoming value of a PHI along an edge (slot is the name   *)
(* the PHI stands for), and the definitions visitPHINode and               *)
(* visitReturnInst look up for a name.                                     *)
Sites == [at : Positions, slot : Names \cup {"obj", "in"},
          edge : (Blocks \X Nat) \cup {Absent}]

VARIABLES
  prog,         (* the function being rewritten; never changes             *)
  pc,           (* where the pass is                                       *)
  unprocessed,  (* memoir_names that have not had their PHIs inserted      *)
  defWork,      (* def_parents_worklist of the current name                *)
  current,      (* the current name                                        *)
  insertedPhis, (* inserted_phis: pairs of a block and a name              *)
  todo,         (* the rest of dfs_traversal: siblings still to visit      *)
  block, idx,   (* the instruction being visited                           *)
  requests,     (* operands still to be renamed here, in groups            *)
  site,         (* the operand being renamed                               *)
  probe,        (* reaching_variable, in the loop of the renaming          *)
  reaching,     (* reaching_definitions                                    *)
  operand,      (* the value each operand holds                            *)
  liveOut       (* LiveOutMetadata: the argument a value is live out for   *)

phiVars == <<unprocessed, defWork, current, insertedPhis>>
walkVars == <<todo, block, idx>>
renameVars == <<requests, site, probe>>
vars == <<prog, pc, phiVars, walkVars, renameVars, reaching, operand, liveOut>>

-----------------------------------------------------------------------------
(* The program                                                             *)

Terminator(p, b) == <<b, Len(p.code[b]) + 1>>

(* The positions of the instructions of a program.                         *)
CodePositions(p) == UNION {{b} \X DOMAIN p.code[b] : b \in p.blocks}

Instr(p, x) == p.code[x[1]][x[2]]

SourcePhis(p) == UNION {{b} \X DOMAIN p.phis[b] : b \in p.blocks}

(* The positions of the definitions of a name; there is one in SSA form.   *)
DefPositions(p, n) ==
  {<<p.entry, -1>> : m \in p.args \cap {n}}
    \cup {<<b, 0>> : b \in {c \in p.blocks : <<c, n>> \in SourcePhis(p)}}
    \cup {x \in CodePositions(p) : Instr(p, x).def = n}

DefPosition(p, n) == CHOOSE x \in DefPositions(p, n) : TRUE

DefinedNames(p) == {n \in Names : DefPositions(p, n) # {}}

NameValue(p, n) == [kind |-> "name", of |-> n, at |-> DefPosition(p, n)]
PhiValue(b, n) == [kind |-> "phi", of |-> n, at |-> <<b, 0>>]
Redefinition(n, b, i) == [kind |-> "redef", of |-> n, at |-> <<b, i>>]

(* DominatorTree::dominates for a definition and a program point.          *)
Dominates(p, d, x) ==
  \/ d[1] = x[1] /\ d[2] < x[2]
  \/ d[1] # x[1] /\ <<d[1], x[1]>> \in p.dom

ObjSite(b, i) == [at |-> <<b, i>>, slot |-> "obj", edge |-> Absent]
InSite(b, i) == [at |-> <<b, i>>, slot |-> "in", edge |-> Absent]
NameSite(b, i, n) == [at |-> <<b, i>>, slot |-> n, edge |-> Absent]
PhiSite(b, n, e) == [at |-> <<b, 0>>, slot |-> n, edge |-> e]

(* Where an operand is used: an incoming value of a PHI is used at the     *)
(* terminator of the block it comes from.                                  *)
Point(p, s) == IF s.edge = Absent THEN s.at ELSE Terminator(p, s.edge[1])

(* The name the source has at a site, or the name an inserted PHI is for.  *)
NameAt(p, s) ==
  IF s.slot = "obj" THEN Instr(p, s.at).obj
  ELSE IF s.slot = "in" THEN Instr(p, s.at).in
  ELSE IF s.edge # Absent /\ <<s.at[1], s.slot>> \in SourcePhis(p)
       THEN p.phis[s.at[1]][s.slot][s.edge]
  ELSE s.slot

(* The operands of the source.                                             *)
SourceSites(p) ==
  LET Objs == {x \in CodePositions(p) : Instr(p, x).obj # Absent}
      Ins  == {x \in CodePositions(p) : Instr(p, x).in # Absent}
      Rets == {x \in CodePositions(p) : Instr(p, x).op = "ret"}
  IN  {ObjSite(x[1], x[2]) : x \in Objs}
        \cup {InSite(x[1], x[2]) : x \in Ins}
        \cup {NameSite(x[1], x[2], a) : x \in Rets, a \in p.args}
        \cup UNION {{PhiSite(x[1], x[2], e) : e \in EdgesInto(p, x[1])} :
                      x \in SourcePhis(p)}

Put(f, x, y) == [z \in DOMAIN f \cup {x} |-> IF z = x THEN y ELSE f[z]]

(* use_is_mutating: the updates, the accesses that are not reads (reads    *)
(* only with UsePHIs), and a fold over a closed object that its body       *)
(* mutates.  An input keyword is not mutating, nor is any instruction that *)
(* is not one of MEMOIR's.                                                 *)
IsMutating(ins) ==
  \/ ins.op \in {"mut", "access"}
  \/ ins.op = "read" /\ UsePhis
  \/ ins.op = "fold" /\ ins.mutates

MutatingBlocks(p, n) ==
  {x[1] : x \in {y \in CodePositions(p) : /\ Instr(p, y).obj = n
                                          /\ IsMutating(Instr(p, y))}}

(* The instructions that give their object a new version.                  *)
Redefines(ins) ==
  \/ ins.op \in {"mut", "call"}
  \/ ins.op = "read" /\ UsePhis
  \/ ins.op = "fold" /\ ins.mutates

(* The functions the front ends hand to the pass: in SSA form, each use of *)
(* a name dominated by its definition, the entry without predecessors or   *)
(* PHIs.                                                                   *)
Instructions ==
  [op : Ops, obj : Names \cup {Absent}, in : Names \cup {Absent},
   def : Names \cup {Absent}, mutates : BOOLEAN]

WellFormed(p) ==
  /\ p.entry \in p.blocks
  /\ p.succ \in [p.blocks -> Seq(p.blocks \ {p.entry})]
  /\ AllReachable(p)
  /\ AnalysisIsSound(p)
  /\ p.args \subseteq Names
  /\ \A b \in p.blocks : /\ DOMAIN p.phis[b] \subseteq Names
                         /\ \A n \in DOMAIN p.phis[b] :
                              p.phis[b][n] \in [EdgesInto(p, b) -> Names]
  /\ DOMAIN p.phis[p.entry] = {}
  /\ p.code \in [p.blocks -> Seq(Instructions)]
  /\ \A x \in CodePositions(p) :
       /\ Redefines(Instr(p, x)) => Instr(p, x).obj # Absent
       /\ Instr(p, x).op = "ret" => Instr(p, x).in = Absent

InSSAForm(p) ==
  /\ \A n \in DefinedNames(p) : \A x, y \in DefPositions(p, n) : x = y
  /\ \A s \in SourceSites(p) :
       /\ NameAt(p, s) \in DefinedNames(p)
       /\ Dominates(p, DefPosition(p, NameAt(p, s)), Point(p, s))

ASSUME NamesAssumption == /\ Absent \notin Names \cup (Blocks \X Nat)
                          /\ {"obj", "in"} \cap Names = {}

ASSUME ProgramsAssumption == \A p \in Programs : WellFormed(p) /\ InSSAForm(p)

-----------------------------------------------------------------------------
(* SSAConstructionPass::run: the PHIs                                      *)

(* The name's own block and the blocks that mutate it.                     *)
DefParents(n) ==
  (IF n \in prog.args THEN {} ELSE {DefPosition(prog, n)[1]}) \cup MutatingBlocks(prog, n)

Init ==
  /\ prog \in Programs
  /\ pc = "pick name"
  /\ unprocessed = DefinedNames(prog)
  /\ defWork = {}
  /\ current = Absent
  /\ insertedPhis = {}
  /\ todo = <<{prog.entry}>>
  /\ block = prog.entry
  /\ idx = 0
  /\ requests = <<>>
  /\ site = Absent
  /\ probe = NoValue
  /\ reaching = [v \in {NameValue(prog, n) : n \in DefinedNames(prog)} |-> v]
  /\ operand = [s \in SourceSites(prog) |-> NameValue(prog, NameAt(prog, s))]
  /\ liveOut = [v \in {} |-> Absent]

(* memoir_names is ordered by pointer: any name may be next.               *)
PickName ==
  /\ pc = "pick name"
  /\ \E n \in unprocessed :
       /\ current' = n
       /\ unprocessed' = unprocessed \ {n}
       /\ defWork' = DefParents(n)
  /\ pc' = "insert"
  /\ UNCHANGED <<prog, insertedPhis, walkVars, renameVars, reaching, operand, liveOut>>

(* The name dominates every predecessor of the frontier block.             *)
DominatesPreds(n, f) ==
  \/ n \in prog.args
  \/ \A p \in Preds(prog, f) : <<DefPosition(prog, n)[1], p>> \in prog.dom

(* Some PHI of the source in f has the name as an incoming value.          *)
AlreadyInPhi(n, f) ==
  \E q \in DOMAIN prog.phis[f] : \E e \in EdgesInto(prog, f) : prog.phis[f][q][e] = n

(* MUTANT: one PHI for each block, whatever the name.                      *)
NeedsPhiOncePerBlock(n, f) ==
  /\ \A m \in Names : <<f, m>> \notin insertedPhis
  /\ DominatesPreds(n, f)
  /\ ~ AlreadyInPhi(n, f)

(* A PHI is due in f, a frontier block of a definition of n.               *)
NeedsPhi(n, f) ==
  /\ <<f, n>> \notin insertedPhis
  /\ DominatesPreds(n, f)
  /\ ~ AlreadyInPhi(n, f)

(* One round of the worklist: the PHIs of the frontier of one block, each  *)
(* with the name as a dummy incoming value.                                *)
InsertPhis ==
  /\ pc = "insert"
  /\ \E b \in defWork :
       LET new == {f \in prog.frontier[b] : NeedsPhi(current, f)}
           sites == UNION {{PhiSite(f, current, e) : e \in EdgesInto(prog, f)} : f \in new}
       IN  /\ insertedPhis' = insertedPhis \cup (new \X {current})
           /\ defWork' = (defWork \ {b}) \cup new
           /\ operand' = [s \in DOMAIN operand \cup sites |->
                            IF s \in sites THEN NameValue(prog, current) ELSE operand[s]]
  /\ UNCHANGED <<prog, pc, unprocessed, current, walkVars, renameVars, reaching, liveOut>>

NameDone ==
  /\ pc = "insert"
  /\ defWork = {}
  /\ pc' = IF unprocessed = {} THEN "pick block" ELSE "pick name"
  /\ UNCHANGED <<prog, phiVars, walkVars, renameVars, reaching, operand, liveOut>>

-----------------------------------------------------------------------------
(* SSAConstructionPass::run: the walk of the dominator tree                *)

(* visitPHINode: the PHIs the pass inserted look up the definition that    *)
(* reaches the block.                                                      *)
PhiRequests(b) == {NameSite(b, 0, n) : n \in {m \in Names : <<b, m>> \in insertedPhis}}

(* The preorder visits a block, then its subtree, then its siblings; the   *)
(* order among siblings is LLVM's.  A PHI of the source is its own         *)
(* reaching definition.                                                    *)
PickBlock ==
  /\ pc = "pick block"
  /\ todo # <<>>
  /\ \E b \in Head(todo) :
       LET own == {NameValue(prog, n) : n \in DOMAIN prog.phis[b]} IN
       /\ block' = b
       /\ todo' = <<prog.children[b], Head(todo) \ {b}>> \o Tail(todo)
       /\ requests' = <<PhiRequests(b)>>
       /\ operand' = [s \in DOMAIN operand \cup PhiRequests(b) |->
                        IF s \in PhiRequests(b) THEN NameValue(prog, s.slot)
                                                ELSE operand[s]]
       /\ reaching' = [v \in DOMAIN reaching |-> IF v \in own THEN v ELSE reaching[v]]
  /\ idx' = 0
  /\ pc' = "visit"
  /\ UNCHANGED <<prog, phiVars, site, probe, liveOut>>

(* MUTANT: an object operand is renamed a second time.                     *)
InstructionRequestsTwice(b, i) ==
  LET Obj == IF Instr(prog, <<b, i>>).obj = Absent THEN {} ELSE {ObjSite(b, i)}
  IN  <<Obj, Obj>>

(* The operands the visitor of an instruction renames, in its order.       *)
InstructionRequests(b, i) ==
  LET ins == Instr(prog, <<b, i>>)
      Obj == IF ins.obj = Absent THEN {} ELSE {ObjSite(b, i)}
      In  == IF ins.in = Absent THEN {} ELSE {InSite(b, i)}
  IN  IF ins.op = "fold" THEN <<In, Obj>>
      ELSE IF ins.op = "ret" THEN <<Obj, {NameSite(b, i, a) : a \in prog.args}>>
      ELSE <<Obj, In>>

(* getBasicBlockIndex: the first entry a PHI of t has for the block.       *)
FirstEdges(b, t) ==
  {e \in EdgesInto(prog, t) : e[1] = b /\ \A k \in 1 .. e[2] - 1 : prog.succ[b][k] # t}

(* The incoming values, from block b, of the PHIs of its successor t.      *)
IncomingSites(b, t) ==
  {PhiSite(t, n, e) : n \in DOMAIN prog.phis[t] \cup {m \in Names : <<t, m>> \in insertedPhis},
                      e \in FirstEdges(b, t)}

(* After the last instruction, those of each successor in turn.            *)
SuccessorRequests(b) == [k \in DOMAIN prog.succ[b] |-> IncomingSites(b, prog.succ[b][k])]

(* update_reaching_definition begins at the value the operand holds.       *)
Begin ==
  /\ pc = "visit"
  /\ requests # <<>>
  /\ IF Head(requests) = {}
     THEN /\ requests' = Tail(requests)
          /\ UNCHANGED <<pc, site, probe>>
     ELSE \E s \in Head(requests) :
            /\ requests' = [requests EXCEPT ![1] = @ \ {s}]
            /\ site' = s
            /\ probe' = operand[s]
            /\ pc' = "search"
  /\ UNCHANGED <<prog, phiVars, walkVars, reaching, operand, liveOut>>

(* What the next round of the do loop reads from the map.                  *)
NextProbe == IF probe \in DOMAIN reaching THEN reaching[probe] ELSE NoValue

(* MUTANT: the dominator tree is not consulted.                            *)
LoopEndsAtOnce(v) == TRUE

LoopEnds(v) ==
  \/ v = NoValue
  \/ Dominates(prog, v.at, Point(prog, site))
  \/ v = operand[site]

(* One more link of the chain of definitions.                              *)
Follow ==
  /\ pc = "search"
  /\ ~ LoopEnds(NextProbe)
  /\ probe' = NextProbe
  /\ UNCHANGED <<prog, pc, phiVars, walkVars, requests, site, reaching, operand, liveOut>>

(* MUTANT: an inserted PHI is its own reaching definition.                 *)
PhiReachingItself(found, name, phi, v) == Put(Put(found, name, phi), phi, phi)

(* visitPHINode: an inserted PHI is the definition that reaches its block, *)
(* and the one that reached before is the PHI's.                           *)
PhiReaching(found, name, phi, v) == Put(Put(found, name, phi), phi, v)

(* The loop ends: the reaching definition of the variable is updated and   *)
(* the operand set to it.  An inserted PHI then becomes the definition     *)
(* that reaches its block.                                                 *)
Rename ==
  /\ pc = "search"
  /\ LoopEnds(NextProbe)
  /\ LET v == NextProbe
         found == IF v = NoValue THEN reaching ELSE Put(reaching, operand[site], v)
         phi == PhiValue(site.at[1], site.slot)
     IN  /\ operand' = [operand EXCEPT ![site] = v]
         /\ reaching' = IF site.at[2] = 0 /\ site.edge = Absent
                        THEN PhiReaching(found, operand[site], phi, v)
                        ELSE found
  /\ pc' = "visit"
  /\ UNCHANGED <<prog, phiVars, walkVars, renameVars, liveOut>>

(* MUTANT: a new version does not remember the one it was made from.       *)
NewReachingForgets(b, i) ==
  LET ins == Instr(prog, <<b, i>>)
      updated == IF Redefines(ins)
                 THEN Put(reaching, NameValue(prog, ins.obj), Redefinition(ins.obj, b, i))
                 ELSE reaching
  IN  IF ins.def = Absent THEN updated
      ELSE Put(updated, NameValue(prog, ins.def), NameValue(prog, ins.def))

(* MUTANT: a new version is linked to the input instead of the object.     *)
NewReachingFromInput(b, i) ==
  LET ins == Instr(prog, <<b, i>>)
      new == Redefinition(ins.obj, b, i)
      from == IF ins.in = Absent THEN ObjSite(b, i) ELSE InSite(b, i)
      updated == IF Redefines(ins)
                 THEN Put(Put(reaching, NameValue(prog, ins.obj), new), new, operand[from])
                 ELSE reaching
  IN  IF ins.def = Absent THEN updated
      ELSE Put(updated, NameValue(prog, ins.def), NameValue(prog, ins.def))

(* What the visitor of an instruction does once its operands are renamed.  *)
NewReaching(b, i) ==
  LET ins == Instr(prog, <<b, i>>)
      new == Redefinition(ins.obj, b, i)
      updated == IF Redefines(ins)
                 THEN Put(Put(reaching, NameValue(prog, ins.obj), new),
                          new, operand[ObjSite(b, i)])
                 ELSE reaching
  IN  IF ins.def = Absent THEN updated
      ELSE Put(updated, NameValue(prog, ins.def), NameValue(prog, ins.def))

(* A value an instruction computes.                                        *)
IsInstruction(v) == v.kind # "name" \/ v.of \notin prog.args

(* MUTANT: PHIs are not marked live out.                                   *)
NewLiveOutNoPhis(b, i) ==
  LET ins == Instr(prog, <<b, i>>)
      Def(a) == operand[NameSite(b, i, a)]
      outs == {a \in prog.args : IsInstruction(Def(a)) /\ Def(a).kind # "phi"}
  IN  IF ins.op # "ret" THEN liveOut
      ELSE [v \in DOMAIN liveOut \cup {Def(a) : a \in outs} |->
              IF \E a \in outs : Def(a) = v THEN CHOOSE a \in outs : Def(a) = v
                                            ELSE liveOut[v]]

(* visitReturnInst: an instruction that reaches the return for an argument *)
(* and is not the value returned is live out for that argument.            *)
NewLiveOut(b, i) ==
  LET ins == Instr(prog, <<b, i>>)
      Def(a) == operand[NameSite(b, i, a)]
      returned == IF ins.obj = Absent THEN NoValue ELSE operand[ObjSite(b, i)]
      outs == {a \in prog.args : Def(a) # returned /\ IsInstruction(Def(a))}
  IN  IF ins.op # "ret" THEN liveOut
      ELSE [v \in DOMAIN liveOut \cup {Def(a) : a \in outs} |->
              IF \E a \in outs : Def(a) = v THEN CHOOSE a \in outs : Def(a) = v
                                            ELSE liveOut[v]]

(* The instruction at idx is done; on to the next, or to the successors.   *)
Advance ==
  /\ pc = "visit"
  /\ requests = <<>>
  /\ idx <= Len(prog.code[block])
  /\ idx' = idx + 1
  /\ requests' = IF idx < Len(prog.code[block]) THEN InstructionRequests(block, idx + 1)
                                           ELSE SuccessorRequests(block)
  /\ reaching' = IF idx = 0 THEN reaching ELSE NewReaching(block, idx)
  /\ liveOut' = IF idx = 0 THEN liveOut ELSE NewLiveOut(block, idx)
  /\ UNCHANGED <<prog, pc, phiVars, todo, block, site, probe, operand>>

LeaveBlock ==
  /\ pc = "visit"
  /\ requests = <<>>
  /\ idx > Len(prog.code[block])
  /\ pc' = "pick block"
  /\ UNCHANGED <<prog, phiVars, walkVars, renameVars, reaching, operand, liveOut>>

(* _dfs_preorder_traversal returns: no sibling is left.                    *)
SubtreeDone ==
  /\ pc = "pick block"
  /\ todo # <<>>
  /\ Head(todo) = {}
  /\ todo' = Tail(todo)
  /\ UNCHANGED <<prog, pc, phiVars, block, idx, renameVars, reaching, operand, liveOut>>

WalkDone ==
  /\ pc = "pick block"
  /\ todo = <<>>
  /\ pc' = "done"
  /\ UNCHANGED <<prog, phiVars, walkVars, renameVars, reaching, operand, liveOut>>

Walk == PickBlock \/ SubtreeDone \/ WalkDone \/ Begin \/ Follow \/ Rename \/ Advance \/ LeaveBlock

Construct == PickName \/ InsertPhis \/ NameDone \/ Walk

(* The pass has returned.                                                  *)
Finished == pc = "done" /\ UNCHANGED vars

Next == Construct \/ Finished

Spec == Init /\ [][Next]_vars

(* The pass is sequential code that nothing interrupts: as long as it can  *)
(* take a step it takes one.                                               *)
FairSpec == Spec /\ WF_vars(Construct)

-----------------------------------------------------------------------------
(* Properties                                                              *)

(* The values that are there: the source's names, the PHIs inserted and    *)
(* the redefinitions.                                                      *)
IsVersion(v) ==
  \/ /\ v.kind = "name"
     /\ v.of \in DefinedNames(prog)
     /\ v = NameValue(prog, v.of)
  \/ /\ v.kind = "phi"
     /\ <<v.at[1], v.of>> \in insertedPhis
     /\ v = PhiValue(v.at[1], v.of)
  \/ /\ v.kind = "redef"
     /\ v.at \in CodePositions(prog)
     /\ Redefines(Instr(prog, v.at))
     /\ v = Redefinition(Instr(prog, v.at).obj, v.at[1], v.at[2])

Versions ==
  LET Redefining == {x \in CodePositions(prog) : Redefines(Instr(prog, x))} IN
  {NameValue(prog, n) : n \in DefinedNames(prog)}
    \cup {PhiValue(x[1], x[2]) : x \in insertedPhis}
    \cup {Redefinition(Instr(prog, x).obj, x[1], x[2]) : x \in Redefining}

(* What visitPHINode looks up for an inserted PHI is not an operand of it. *)
IsLookup(s) == s.at[2] = 0 /\ s.edge = Absent

PCs == {"pick name", "insert", "pick block", "visit", "search", "done"}

(* Every variable has its type; the walk's worklists hold blocks and       *)
(* operands that exist.                                                    *)
TypeOK ==
  /\ prog \in Programs
  /\ pc \in PCs
  /\ unprocessed \subseteq DefinedNames(prog)
  /\ defWork \subseteq prog.blocks
  /\ current \in DefinedNames(prog) \cup {Absent}
  /\ insertedPhis \subseteq prog.blocks \X DefinedNames(prog)
  /\ todo \in Seq(SUBSET prog.blocks)
  /\ block \in prog.blocks
  /\ idx \in 0 .. Len(prog.code[block]) + 1
  /\ requests \in Seq(SUBSET DOMAIN operand)
  /\ site \in DOMAIN operand \cup {Absent}
  /\ DOMAIN operand \subseteq Sites
  /\ operand \in [DOMAIN operand -> Values]
  /\ DOMAIN reaching \subseteq Values
  /\ reaching \in [DOMAIN reaching -> Values]
  /\ probe \in Values \cup {NoValue}
  /\ liveOut \in [DOMAIN liveOut -> prog.args]

(* reaching_definitions never leads from one object to another, so the     *)
(* loop of update_reaching_definition finds a version of the name it       *)
(* started from and the null value it may return is never stored: however  *)
(* stale the entries left behind by another subtree of the dominator tree, *)
(* each operand is a version of the name the source has there.             *)
OperandsKeepTheirNames ==
  \A s \in DOMAIN operand : operand[s].of = NameAt(prog, s)

(* What llvm::verifyFunction checks when the pass is done: each operand is *)
(* a value that was created, and its definition dominates the use.  It     *)
(* holds at every step, since dummies and stale chains are replaced by     *)
(* dominating values only.                                                 *)
OperandsAreDefined ==
  \A s \in DOMAIN operand :
    /\ IsVersion(operand[s])
    /\ IsLookup(s) \/ Dominates(prog, operand[s].at, Point(prog, s))

(* LiveOutMetadata holds one argument number for each instruction, and     *)
(* setArgNo overwrites it: no value is live out for two arguments.         *)
LiveOutsNameTheirArgument == \A v \in DOMAIN liveOut : liveOut[v] = v.of

(* An operand that was given a version is never renamed again: the walk    *)
(* visits each operand once, and what it found there is final.             *)
RenamedOnce ==
  [][\A s \in DOMAIN operand : operand[s].kind # "name" => operand'[s] = operand[s]]_vars

(* What the pass is to find for each operand: of the versions whose        *)
(* definition dominates the use, the one that all the others come before.  *)
(* The chain of reaching definitions must neither pass it over, wherever   *)
(* the walk last changed the map, nor stop short of it.                    *)
OperandsAreNearest ==
  pc = "done" =>
    \A s \in DOMAIN operand : \A w \in Versions :
      w.of = operand[s].of /\ Dominates(prog, w.at, Point(prog, s))
        => w = operand[s] \/ Dominates(prog, w.at, operand[s].at)

(* The caller of a fold asks use_is_mutating whether the body mutates a    *)
(* closed argument, and creates a RetPHI if so.  Its answer must not       *)
(* depend on whether the body was rewritten already: an argument that the  *)
(* source mutates is still the operand of a mutating instruction.          *)
MutatedArgumentsStayMutated ==
  pc = "done" =>
    \A a \in prog.args :
      MutatingBlocks(prog, a) # {} =>
        \E s \in DOMAIN operand : /\ s.slot = "obj"
                                  /\ operand[s] = NameValue(prog, a)
                                  /\ IsMutating(Instr(prog, s.at))

(* The loop of update_reaching_definition ends on every chain, and so does *)
(* the pass.                                                               *)
Terminates == <>(pc = "done")
=============================================================================
