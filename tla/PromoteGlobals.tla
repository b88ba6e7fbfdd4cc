--------------------------- MODULE PromoteGlobals ---------------------------
(***************************************************************************)
(* promote_global: the loads and stores of a global become those of a      *)
(* local of each function, which is handed down the calls that lie on a    *)
(* path from a function that stores to one that loads.  The program runs   *)
(* on the global and on the locals at once.                                *)
(*                                                                         *)
(* A program has code, for each function a sequence of [op, arg]: store    *)
(* (a value, or Same: the value that was loaded), load, call (a function), *)
(* fold (its body, a function) and ret; a call is taken or not, a body is  *)
(* run for each element.  visible are the functions that are not internal  *)
(* to the module, taken those used otherwise than by calls and folds.      *)
(***************************************************************************)
EXTENDS Integers, Sequences, FiniteSets, SequencesExt

CONSTANTS
  GlobalPrograms,  (* the programs                                         *)
  InitialValue,    (* the initializer of the global                        *)
  Same,            (* a store of what is there                             *)
  MaxFrames        (* a bound on the depth of calls                        *)

UsesBy(q, op, F) ==
  UNION {{<<G, n>> : n \in {k \in DOMAIN q.code[G] : q.code[G][k] = [op |-> op, arg |-> F]}} : G \in DOMAIN q.code}

(* SSA construction clones the bodies of folds until each has one user.    *)
HasOwnBody(q, F, n) ==
  LET body == q.code[F][n].arg IN
  body \notin q.taken /\ UsesBy(q, "call", body) = {} /\ UsesBy(q, "fold", body) = {<<F, n>>}

(* A program starts in main and calls the functions that it has; the code  *)
(* of each ends with a return (llvm::Module, the verifier).                *)
ProgramsAreWhole ==
  \A q \in GlobalPrograms :
    /\ IsFiniteSet(DOMAIN q.code) /\ "main" \in DOMAIN q.code
    /\ \A F \in DOMAIN q.code :
         LET code == q.code[F] IN
         /\ Len(code) \in Nat \ {0} /\ DOMAIN code = 1 .. Len(code) /\ code[Len(code)].op = "ret"
         /\ \A n \in DOMAIN code : code[n].op \in {"call", "fold"} => code[n].arg \in DOMAIN q.code
         /\ \A n \in DOMAIN code : code[n].op = "fold" => HasOwnBody(q, F, n)

VARIABLES
  prog,    (* the program                                                  *)
  paths,   (* what was found of it: [inner, all, promoted]                 *)
  global,  (* the global, in the program                                   *)
  owner,   (* the frame that gave it its value: 0, none; -1, it returned   *)
  active,  (* the calls that are active: [fun, line, local]                *)
  seen     (* what the last load found: <<global, local>>                  *)

globalVars == <<prog, paths, global, owner, active, seen>>

Functions == DOMAIN prog.code
Using(op) == {F \in Functions : \E n \in DOMAIN prog.code[F] : prog.code[F][n].op = op}

-----------------------------------------------------------------------------
(* The call graph.                                                         *)

(* get_single_fold: the folds, if all users are; one, by HasOwnBody.       *)
SingleFold(F) ==
  IF F \in prog.taken \/ UsesBy(prog, "call", F) # {} THEN {} ELSE UsesBy(prog, "fold", F)

(* LLVM's graph has an edge for each call, to a function of the runtime    *)
(* for a fold; for the single fold of a body, it is made one to the body.  *)
Callees(F) ==
  LET code == prog.code[F] IN
  {code[n].arg : n \in {k \in DOMAIN code : code[k].op = "call"
                                           \/ (code[k].op = "fold" /\ <<F, k>> \in SingleFold(code[k].arg))}}

(* LLVM's external node calls what is visible and what has users that are  *)
(* no calls; of these, bodies of folds are taken out.                      *)
CalledExternally ==
  {F \in Functions :
     \/ F \in prog.visible
     \/ SingleFold(F) = {} /\ (F \in prog.taken \/ UsesBy(prog, "fold", F) # {})}

HasUnknownCaller(F) == F \in prog.visible \/ F \in prog.taken

(* What needs a version of its own: none is made.                          *)
ToVersion == {F \in Functions : SingleFold(F) = {} /\ HasUnknownCaller(F)}

-----------------------------------------------------------------------------
(* The paths.                                                              *)

(* The functions that calls reach from those of a set, through functions   *)
(* in "through" only.                                                      *)
Reached(from, through) ==
  LET reach[n \in 0 .. Cardinality(Functions)] ==
        IF n = 0 THEN from
        ELSE LET near == reach[n - 1] IN near \cup UNION {Callees(F) : F \in near \cap through}
  IN  reach[Cardinality(Functions)]

Below(F, through) == Reached(Callees(F), through)

(* find_all_paths: a path ends where it meets the function that loads.     *)
PathFunctions(S, L) ==
  LET through == Functions \ {L}
      inner == {F \in through : F \in Below(S, through) /\ L \in Below(F, through)} IN
  IF L \in Below(S, through) THEN inner \cup {L} ELSE {}

(* The functions of the paths but the first of each, and with it; paths    *)
(* that code outside of the module may enter, or that need a version of    *)
(* their own, are given up (called_externally, has_unknown_caller).        *)
InPath == UNION {PathFunctions(S, L) : S \in Using("store"), L \in Using("load")}
Sources == {S \in Using("store") : \E L \in Using("load") : PathFunctions(S, L) # {}}

Promotable == InPath \cap (CalledExternally \cup ToVersion) = {}

(* calls_to_patch: a call of F is given the local of its caller or the     *)
(* initializer; what is called and not patched starts from its own.        *)
(* MUTANT: callers that only pass the value on are left out.               *)
PassedByUsers(caller, F, local) ==
  IF F \in paths.inner /\ caller \in Using("store") \cup Using("load") THEN local ELSE InitialValue

Passed(caller, F, local) ==
  IF F \in paths.inner /\ caller \in paths.all THEN local ELSE InitialValue

-----------------------------------------------------------------------------
GInit ==
  /\ prog \in GlobalPrograms /\ paths = <<>>
  /\ global = InitialValue /\ owner = 0
  /\ active = <<[fun |-> "main", line |-> 1, local |-> InitialValue]>>
  /\ seen = <<InitialValue, InitialValue>>

Promote ==
  /\ paths = <<>>
  /\ paths' = [inner |-> InPath, all |-> InPath \cup Sources, promoted |-> Promotable]
  /\ UNCHANGED <<prog, global, owner, active, seen>>

TopFrame == Last(active)
NextInstr == prog.code[TopFrame.fun][TopFrame.line]
Executing == paths # <<>> /\ active # <<>> /\ UNCHANGED <<prog, paths>>
Local == IF paths.promoted THEN TopFrame.local ELSE global
SteppedOn == [active EXCEPT ![Len(active)].line = @ + 1]

(* Where the caller goes on: a fold at its next element, or its end.       *)
Resumed == IF NextInstr.op = "fold" THEN active ELSE SteppedOn

IsCall == NextInstr.op \in {"call", "fold"}

Store ==
  /\ Executing /\ NextInstr.op = "store"
  /\ IF NextInstr.arg = Same
     THEN active' = SteppedOn /\ UNCHANGED <<global, owner>>
     ELSE /\ global' = NextInstr.arg
          /\ owner' = Len(active)
          /\ active' = [SteppedOn EXCEPT ![Len(active)].local = NextInstr.arg]
  /\ UNCHANGED seen

Load ==
  /\ Executing /\ NextInstr.op = "load"
  /\ seen' = IF owner = -1 THEN seen ELSE <<global, Local>>
  /\ active' = SteppedOn
  /\ UNCHANGED <<global, owner>>

Call ==
  /\ Executing /\ IsCall /\ Len(active) < MaxFrames
  /\ active' = Append(Resumed, [fun |-> NextInstr.arg, line |-> 1,
                               local |-> Passed(TopFrame.fun, NextInstr.arg, TopFrame.local)])
  /\ UNCHANGED <<global, owner, seen>>

SkipCall ==
  /\ Executing /\ IsCall
  /\ active' = SteppedOn
  /\ UNCHANGED <<global, owner, seen>>

Returns ==
  /\ Executing /\ NextInstr.op = "ret"
  /\ owner' = IF owner = Len(active) THEN -1 ELSE owner
  /\ active' = Front(active)
  /\ UNCHANGED <<global, seen>>

GNext == Promote \/ Store \/ Load \/ Call \/ SkipCall \/ Returns

GSpec == GInit /\ [][GNext]_globalVars

-----------------------------------------------------------------------------
(* The search finds every function between a store and a load: none lies   *)
(* beyond a function that loads and calls it.                              *)
PathsAreAll ==
  \A S \in Using("store"), L \in Using("load") :
    {F \in Below(S, Functions) : L \in Below(F, Functions)} \subseteq InPath

(* A load finds what it found in the global, as long as the function that  *)
(* gave the global its value has not returned: the value goes down the     *)
(* calls, never up (promote_global).                                       *)
LoadsSeeTheGlobal == seen[1] # seen[2] => ~PathsAreAll
=============================================================================
