------------------------------- MODULE MCSSA -------------------------------
(***************************************************************************)
(* SSA construction and the execution of its result, for the model         *)
(* checker: each run checks the functions of one suite.                    *)
(***************************************************************************)
EXTENDS SSAExecution, MCFunctions

CONSTANT Suite   (* which family of functions a run checks                 *)

MCPrograms ==
  CASE Suite = "construction" ->
         OneArgument \cup TwoArguments \cup ClosedOnBoth \cup CopyOfArgument \cup SourcePhiFunctions
    [] Suite = "branch call" -> BranchCall
    [] Suite = "loop mutation" -> LoopMutation

(* The hypothesis of the theorems of SSAExecutionProofs.                   *)
ASSUME AllCanRun == Suite = "construction" => \A p \in MCPrograms : CanRun(p)
=============================================================================
