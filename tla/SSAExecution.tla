---------------------------- MODULE SSAExecution ----------------------------
(***************************************************************************)
(* What the program means before and after SSA construction.               *)
(*                                                                         *)
(* Once the pass is done the function runs, its source and its rewritten   *)
(* form in lockstep along one path of the control-flow graph.  In the      *)
(* source a name refers to an object and a mutation changes the object for *)
(* everyone who refers to it.  In the rewritten program every value is     *)
(* immutable: an update yields a new value, a PHI copies the incoming      *)
(* value of the edge taken.  Contents are abstracted to the clock reading  *)
(* of the last mutation, so two contents are equal when they are the       *)
(* results of the same mutations.                                          *)
(***************************************************************************)
EXTENDS SSAConstruction

CONSTANT MaxSteps   (* the number of instructions a run executes           *)

(***************************************************************************)
(* The functions whose rewritten form is to run like the source.           *)
(***************************************************************************)

(* The names a block uses; what a PHI takes along an edge is used at the   *)
(* end of the block it comes from, and a return uses each argument.        *)
UsedIn(p, b) == {NameAt(p, s) : s \in {u \in SourceSites(p) : Point(p, u)[1] = b}}

(* The blocks at whose beginning a name may still be used: the least set   *)
(* that control leads to from no block but one of the set, or the one that *)
(* defines the name.                                                       *)
LiveIn(p, n) ==
  LET Closed(S) == \A b \in p.blocks :
        /\ b # DefPosition(p, n)[1]
        /\ n \in UsedIn(p, b) \/ SuccSet(p, b) \cap S # {}
        => b \in S
  IN  {b \in p.blocks : \A S \in SUBSET p.blocks : Closed(S) => b \in S}

(* Where a PHI takes over an object, no other PHI takes it, and the name   *)
(* it had is not used any more: no two names in use are of one object.     *)
PhisTakeOver(p) ==
  \A t \in p.blocks : \A e \in EdgesInto(p, t) : \A n \in DOMAIN p.phis[t] :
    /\ t \notin LiveIn(p, p.phis[t][n][e])
    /\ \A m \in DOMAIN p.phis[t] : p.phis[t][m][e] = p.phis[t][n][e] => m = n

(* An object is passed to a call where use_is_mutating sees a mutation of  *)
(* it, too, or from where every path stays below the call.                 *)
CallsAreCovered(p) ==
  \A x \in CodePositions(p) :
    Instr(p, x).op = "call" =>
      \/ x[1] = DefPosition(p, Instr(p, x).obj)[1]
      \/ x[1] \in MutatingBlocks(p, Instr(p, x).obj)
      \/ p.frontier[x[1]] = {}

(* Objects are made by allocations and copies.                             *)
ObjectsAreMade(p) ==
  \A x \in CodePositions(p) : Instr(p, x).def # Absent => Instr(p, x).op \in {"alloc", "copy"}

CanRun(p) == SimpleEdges(p) /\ PhisTakeOver(p) /\ CallsAreCovered(p) /\ ObjectsAreMade(p)

VARIABLES
  xblock, xidx,   (* the next instruction of the run                       *)
  clock,          (* instructions executed                                 *)
  objectOf,       (* source: the object each name refers to                *)
  contents,       (* source: the contents of each object                   *)
  env              (* rewritten: the contents of each value                *)

runVars == <<xblock, xidx, clock, objectOf, contents, env>>
xvars == <<vars, runVars>>

XInit ==
  /\ Init
  /\ xblock = prog.entry
  /\ xidx = 1
  /\ clock = 0
  /\ objectOf = [n \in prog.args |-> <<"arg", n>>]
  /\ contents = [o \in {<<"arg", n>> : n \in prog.args} |-> <<o, 0>>]
  /\ env = [v \in {NameValue(prog, n) : n \in prog.args} |-> <<<<"arg", v.of>>, 0>>]

Running == pc = "done" /\ clock < MaxSteps

Here == prog.code[xblock][xidx]
AtInstruction == Running /\ xidx <= Len(prog.code[xblock])

(* The contents the rewritten program finds in an operand.                 *)
Seen(s) == env[operand[s]]

(* The mutation of an object in the source is an update of a value in the  *)
(* rewritten program.                                                      *)
RunMutation ==
  /\ AtInstruction
  /\ Here.op \in {"mut", "call"} \/ (Here.op = "fold" /\ Here.mutates)
  /\ contents' = Put(contents, objectOf[Here.obj], <<objectOf[Here.obj], clock + 1>>)
  /\ env' = Put(env, Redefinition(Here.obj, xblock, xidx),
                <<objectOf[Here.obj], clock + 1>>)
  /\ xidx' = xidx + 1
  /\ clock' = clock + 1
  /\ UNCHANGED <<vars, xblock, objectOf>>

(* A read; its UsePHI, if there is one, has the contents of its operand.   *)
RunRead ==
  /\ AtInstruction
  /\ Here.op \in {"read", "use", "access", "ret"} \/ (Here.op = "fold" /\ ~ Here.mutates)
  /\ Here.def = Absent
  /\ env' = IF Redefines(Here)
            THEN Put(env, Redefinition(Here.obj, xblock, xidx), Seen(ObjSite(xblock, xidx)))
            ELSE env
  /\ xidx' = xidx + 1
  /\ clock' = clock + 1
  /\ UNCHANGED <<vars, xblock, objectOf, contents>>

(* An allocation or a copy makes a new object.                             *)
RunDefinition ==
  /\ AtInstruction
  /\ Here.op \in {"alloc", "copy"}
  /\ Here.def # Absent
  /\ LET o == <<"new", clock + 1>> IN
       /\ objectOf' = Put(objectOf, Here.def, o)
       /\ contents' = Put(contents, o, <<o, clock + 1>>)
       /\ env' = Put(env, NameValue(prog, Here.def), <<o, clock + 1>>)
  /\ xidx' = xidx + 1
  /\ clock' = clock + 1
  /\ UNCHANGED <<vars, xblock>>

(* Control takes an edge; the PHIs of the target take their values at once.*)
RunEdge ==
  /\ Running
  /\ xidx > Len(prog.code[xblock])
  /\ \E k \in DOMAIN prog.succ[xblock] :
       LET t == prog.succ[xblock][k]
           e == <<xblock, k>>
           own == DOMAIN prog.phis[t]
           added == {n \in Names : <<t, n>> \in insertedPhis}
           Of(v) == PhiSite(t, v.of, e)
           phiValues == {NameValue(prog, n) : n \in own} \cup {PhiValue(t, n) : n \in added}
           defined == {v \in phiValues : operand[Of(v)] \in DOMAIN env}
       IN  /\ xblock' = t
           /\ env' = [v \in DOMAIN env \cup defined |->
                        IF v \in defined THEN env[operand[Of(v)]] ELSE env[v]]
           /\ objectOf' = [n \in DOMAIN objectOf \cup own |->
                             IF n \in own THEN objectOf[prog.phis[t][n][e]] ELSE objectOf[n]]
  /\ xidx' = 1
  /\ clock' = clock + 1
  /\ UNCHANGED <<vars, contents>>

(* The run has returned, or is cut off.                                    *)
Halted ==
  /\ pc = "done"
  /\ \/ clock = MaxSteps
     \/ xidx > Len(prog.code[xblock]) /\ prog.succ[xblock] = <<>>
  /\ UNCHANGED xvars

XNext ==
  \/ Construct /\ UNCHANGED runVars
  \/ RunMutation \/ RunRead \/ RunDefinition \/ RunEdge
  \/ Halted

(* The object operands of the next instruction, with their source names.   *)
OperandsHere == {s \in DOMAIN operand : s.at = <<xblock, xidx>> /\ s.slot \in {"obj", "in"}}

(* The point of SSA construction: an instruction finds in each operand the *)
(* contents its object has in the source at that moment, whatever path led *)
(* to it, however often a loop ran.                                        *)
ReadsSeeLatest ==
  AtInstruction =>
    \A s \in OperandsHere :
      /\ operand[s] \in DOMAIN env
      /\ env[operand[s]] = contents[objectOf[NameAt(prog, s)]]

(* Callers learn of a mutated argument through its live-out: at the return *)
(* the definition that reaches it holds the final contents of the          *)
(* argument's object, and is marked live out, or returned, if they changed.*)
CallersSeeLatest ==
  AtInstruction /\ Here.op = "ret" =>
    \A a \in prog.args :
      LET v == operand[NameSite(xblock, xidx, a)] IN
      /\ v \in DOMAIN env
      /\ env[v] = contents[<<"arg", a>>]
      /\ \/ contents[<<"arg", a>>] = <<<<"arg", a>>, 0>>
         \/ v \in DOMAIN liveOut /\ liveOut[v] = a
         \/ Here.obj # Absent /\ v = operand[ObjSite(xblock, xidx)]

XSpec == XInit /\ [][XNext]_xvars /\ WF_xvars(Construct /\ UNCHANGED runVars)
=============================================================================
