------------------------------ MODULE DeadCode ------------------------------
(***************************************************************************)
(* eliminate_dead_code: one walk over the instructions of a function       *)
(* deletes those that nothing uses and that have no effect.  The operands  *)
(* that a deletion leaves without uses are put into a worklist, which is a *)
(* parameter passed by value: what is put into it is lost, and the loop    *)
(* over the worklist that follows the walk finds nothing.                  *)
(* A function is a list of instructions [uses, effect, liveOut]: operands  *)
(* are numbers of instructions, the instruction itself for a PHI that a    *)
(* loop carries; liveOut if it has LiveOutMetadata.                        *)
(***************************************************************************)
EXTENDS Integers, Sequences, FiniteSets

CONSTANTS Functions   (* the functions to check                            *)

VARIABLES
  insts,      (* the function as it was                                    *)
  alive,      (* the instructions that were not erased                     *)
  operands,   (* the operands of each instruction that are not null        *)
  line        (* the instruction that the walk visits                      *)

Instruction == [uses : SUBSET Nat, effect : BOOLEAN, liveOut : BOOLEAN]

(* A function is a list of instructions whose operands are instructions of *)
(* the function (llvm::Function owns both).                                *)
FunctionsAreWhole ==
  \A p \in Functions : p \in Seq(Instruction) /\ \A i \in DOMAIN p : p[i].uses \subseteq DOMAIN p

dceVars == <<insts, alive, operands, line>>

Users(i, us) == {j \in alive : i \in us[j]}

(* MUTANT: a value that only its caller sees is deleted.                   *)
DeadForgettingLiveOuts(i, us) == Users(i, us) = {} /\ ~insts[i].effect

(* isInstructionTriviallyDead and no LiveOutMetadata.                      *)
TriviallyDead(i, us) == Users(i, us) = {} /\ ~insts[i].effect /\ ~insts[i].liveOut

DCInit ==
  /\ insts \in Functions
  /\ alive = DOMAIN insts
  /\ operands = [i \in DOMAIN insts |-> insts[i].uses]
  /\ line = 1

(* eliminate_dead_code(inst, worklist): the worklist of the walk, which it *)
(* has a copy of, stays empty.                                             *)
Eliminated(i) ==
  IF TriviallyDead(i, operands)
  THEN operands' = [operands EXCEPT ![i] = {}] /\ alive' = alive \ {i}
  ELSE UNCHANGED <<operands, alive>>

VisitLine ==
  /\ line \in DOMAIN insts
  /\ Eliminated(line)
  /\ line' = line + 1
  /\ UNCHANGED insts

Ended == line \notin DOMAIN insts

DCNext == VisitLine \/ (Ended /\ UNCHANGED dceVars)

DCSpec == DCInit /\ [][DCNext]_dceVars

-----------------------------------------------------------------------------
(* Properties                                                              *)

(* What an effect or a live-out needs, directly or not.                    *)
Demanded ==
  LET back[n \in 0 .. Len(insts)] ==
        IF n = 0 THEN {i \in DOMAIN insts : insts[i].effect \/ insts[i].liveOut}
        ELSE LET near == back[n - 1] IN near \cup UNION {insts[i].uses : i \in near}
  IN  back[Len(insts)]

(* What effects and callers need is kept, with its operands.               *)
DemandedIsKept ==
  /\ Demanded \subseteq alive
  /\ \A i \in Demanded : operands[i] = insts[i].uses
=============================================================================
