--------------------------- MODULE MCDestruction ---------------------------
(***************************************************************************)
(* SSA construction, SSA destruction and the execution of the result, for  *)
(* the model checker: each run checks the functions of one suite.          *)
(***************************************************************************)
EXTENDS SSADestruction, MCFunctions

CONSTANT Suite   (* which family of functions a run checks                 *)

(* Functions that construction alone gets wrong, and all with PHIs.        *)
AllPhiFunctions == SourcePhiFunctions \cup ReadAfterPhi \cup BranchCall

(* Folds over one argument that close on another, mutating it or not.      *)
Folds ==
  Functions({Diamond, Loop, Fork}, {"a", "b"}, FoldPure("b", "a"),
            {None, Fold("b", "a"), FoldPure("a", "b") \o Mut("b"), Copy("a", "p") \o Fold("p", "b")},
            Read("a") \o Ret("b"))

FoldsOnBothSides ==
  Functions({Diamond}, {"a", "b"}, FoldPure("b", "a"), {None, Fold("b", "a")}, Ret(Absent))

MCPrograms ==
  CASE Suite = "round trip" -> AllPhiFunctions \cup {p \in Folds : InSSAForm(p)}
    [] Suite = "both sides" -> FoldsOnBothSides
=============================================================================
