-------------------------- MODULE LiveOutInsertion -------------------------
(***************************************************************************)
(* LiveOutInsertionPass: the caller of a function finds the version that a *)
(* collection has when the function returns by LiveOutMetadata, which the  *)
(* pass erases and attaches anew: for each argument, to the one version of *)
(* it that dominates the return and postdominates all other versions that  *)
(* do.  An instruction has one metadata, which names one argument.  Then   *)
(* the function is executed, and its caller looks.                         *)
(* The pass sees all dominance by LLVM's analyses, given here by paths.    *)
(***************************************************************************)
EXTENDS InPlaceRuns

CONSTANTS
  LiveOutPrograms,        (* the functions                                 *)
  VersionAt(_, _, _, _)   (* of a function, the version that one of its    *)
                          (* arguments has before an instruction           *)

VARIABLES
  todo,      (* the arguments that were not visited yet, a hash set        *)
  liveOuts,  (* LiveOutMetadata: the number of the argument of a value     *)
  phase      (* "stale", "insert", "run" or "aborted"                      *)

outVars == <<todo, liveOuts, phase>>

(***************************************************************************)
(* The functions are as SSA construction leaves them.                      *)
(***************************************************************************)

(* What makes a new version of an object, or gives it a new name.          *)
Redefinitions == {"update", "retphi", "usephi", "fold"}

(* They are in SSA form, as LLVM's verifier has it.                        *)
IsInSSA(g) ==
  /\ IsFiniteSet(g.blocks) /\ g.entry \in g.blocks /\ AllReachable(g)
  /\ Len(g.phis[g.entry]) = 0
  /\ Absent \notin ArgsOf(g)
  /\ \A j, k \in DOMAIN g.args : g.args[j] = g.args[k] => j = k
  /\ \A b \in g.blocks :
       /\ SuccSet(g, b) \subseteq g.blocks
       /\ Len(g.phis[b]) \in Nat /\ Len(g.code[b]) \in Nat \ {0}
       /\ \A k \in 1 .. Len(g.phis[b]) :
            /\ g.phis[b][k].def \notin ArgsOf(g) \cup {Absent}
            /\ \A c \in g.blocks : \A n \in 1 .. Len(g.phis[c]) :
                 g.phis[c][n].def = g.phis[b][k].def => c = b /\ n = k
            /\ DOMAIN g.phis[b][k].from = Preds(g, b)
            /\ \A p \in Preds(g, b) : g.phis[b][k].from[p] \in Available(g, p, Len(g.code[p]) + 1)
       /\ \A k \in 1 .. Len(g.code[b]) :
            LET i == g.code[b][k] IN
            /\ i.uses \subseteq Available(g, b, k)
            /\ \/ i.op \in {"alloc", "copy"} /\ DefinedOnce(g, b, k)
               \/ i.op \in Redefinitions /\ DefinedOnce(g, b, k) /\ i.obj \in i.uses
               \/ i.op \in {"read", "end", "unreachable"} /\ i.def = Absent
            /\ k = Len(g.code[b]) => i.op \in {"end", "unreachable"}

VersionsOf(g, a) ==
  UNION {{VersionAt(g, b, k, a) : k \in 1 .. Len(g.code[b])} : b \in g.blocks}

(* An argument has one version at a time: an instruction redefines the     *)
(* version there is, a PHI joins those that its predecessors end with, and *)
(* where there is no PHI, all end with the same.                           *)
IsVersioned(g) ==
  \A a \in ArgsOf(g) :
    /\ VersionAt(g, g.entry, 1, a) = a
    /\ \A c \in ArgsOf(g) \ {a} : VersionsOf(g, a) \cap VersionsOf(g, c) = {}
    /\ \A b \in g.blocks :
         LET last == VersionAt(g, b, Len(g.code[b]), a) IN
         /\ \A k \in 1 .. Len(g.code[b]) - 1 :
              LET i == g.code[b][k]
                  v == VersionAt(g, b, k, a)
                  redefines == i.op \in Redefinitions /\ i.obj \in VersionsOf(g, a) IN
              /\ redefines => i.obj = v
              /\ VersionAt(g, b, k + 1, a) = IF redefines THEN i.def ELSE v
         /\ \A s \in SuccSet(g, b) :
              LET joins == {n \in 1 .. Len(g.phis[s]) : g.phis[s][n].from[b] \in VersionsOf(g, a)} IN
              /\ \A n \in joins : /\ g.phis[s][n].from[b] = last
                                 /\ VersionAt(g, s, 1, a) = g.phis[s][n].def
              /\ joins = {} => /\ VersionAt(g, s, 1, a) = last
                               /\ \A n \in 1 .. Len(g.phis[s]) : g.phis[s][n].def # last

ReturnsOf(g) == {b \in g.blocks : g.succ[b] = <<>> /\ g.code[b][Len(g.code[b])].op = "end"}

ASSUME LiveOutProgramsAreVersioned ==
  \A g \in LiveOutPrograms : IsInSSA(g) /\ IsVersioned(g) /\ \E r \in g.blocks : ReturnsOf(g) = {r}

-----------------------------------------------------------------------------

(* _gather_reaching_definitions, one use further: the version an object    *)
(* becomes, the result of a RetPHI, a UsePHI or a fold that accumulates    *)
(* it, and PHIs.                                                           *)
Redefined(v) ==
  {i.def : i \in {j \in AllCode : j.op \in Redefinitions /\ j.obj = v}}
    \cup {p.def : p \in {q \in AllPhis : v \in Incoming(q)}}

Reaching(v) ==
  LET reached[n \in 0 .. Cardinality(AllCode) + Cardinality(AllPhis)] ==
        IF n = 0 THEN {v}
        ELSE LET near == reached[n - 1] IN near \cup UNION {Redefined(w) : w \in near}
  IN  reached[Cardinality(AllCode) + Cardinality(AllPhis)]

IsArg(v) == v \in Args

DefinedAt(v) ==
  CHOOSE x \in UNION {{b} \X (0 .. Len(f.code[b])) : b \in f.blocks} :
    IF x[2] = 0 THEN v \in PhiDefs(x[1]) ELSE f.code[x[1]][x[2]].def = v

Returns == ReturnsOf(f)

SingleReturn == CHOOSE b \in Returns : TRUE

Dominates(v, b) == IsArg(v) \/ BlockDominates(f, DefinedAt(v)[1], b)

CannotReach(d) == UNION {S \in SUBSET (f.blocks \ {d}) : \A b \in S : SuccSet(f, b) \subseteq S}

(* The blocks from which control can leave the function, or get into a     *)
(* loop that has no end, without d.                                        *)
LeavesAvoiding(d) ==
  {c \in f.blocks \ {d} :
     \A S \in SUBSET (f.blocks \ {d}) :
        c \in S /\ (\A b \in S : SuccSet(f, b) \ {d} \subseteq S) => S \cap CannotReach(d) # {}}

(* PostDominatorTree::dominates of instructions: PHIs of one block are     *)
(* unordered.                                                              *)
PostDominates(v, w) ==
  LET x == DefinedAt(v)
      y == DefinedAt(w) IN
  IF x[1] = y[1] THEN x[2] > y[2] ELSE y[1] \notin LeavesAvoiding(x[1])

(* find_single_postdominator, of which there is at most one: a set.        *)
SinglePostdominator(values) ==
  IF Cardinality(values) = 1 THEN values
  ELSE {v \in values : ~IsArg(v) /\ \A w \in values : w = v \/ IsArg(w) \/ PostDominates(v, w)}

(* The value that is found for an argument, if one is: among those that    *)
(* dominate the return or else, for functions that call exit, in its block.*)
Found(a) ==
  LET dominates == {v \in Reaching(a) : Dominates(v, SingleReturn)}
      local     == {v \in dominates : ~IsArg(v) /\ DefinedAt(v)[1] = SingleReturn} IN
  IF SinglePostdominator(dominates) # {} THEN SinglePostdominator(dominates) ELSE SinglePostdominator(local)

-----------------------------------------------------------------------------
LOInit ==
  /\ f \in LiveOutPrograms
  /\ RunInit
  /\ todo = {}
  /\ liveOuts \in {<<>>} \cup {[w \in {v} |-> 1] : v \in {p.def : p \in AllPhis}}
  /\ phase = "stale"

(* MUTANT: the metadata of earlier passes is kept.                         *)
EraseNothing ==
  /\ phase = "stale"
  /\ phase' = "insert"
  /\ todo' = Args
  /\ UNCHANGED <<f, liveOuts, execVars>>

Erase ==
  /\ phase = "stale"
  /\ liveOuts' = <<>>
  /\ phase' = "insert"
  /\ todo' = Args
  /\ UNCHANGED <<f, execVars>>

Position(a) == CHOOSE k \in DOMAIN f.args : f.args[k] = a

Insert(a) ==
  LET reaching == Reaching(a)
      found    == Found(a) IN
  /\ phase = "insert"
  /\ a \in todo
  /\ todo' = todo \ {a}
  /\ phase' = IF reaching # {a} /\ found = {} THEN "aborted" ELSE phase
  /\ liveOuts' =
       IF reaching = {a} \/ \A v \in found : IsArg(v) THEN liveOuts
       ELSE With(liveOuts, CHOOSE v \in found : TRUE, Position(a))
  /\ UNCHANGED <<f, execVars>>

EnterFunction == phase = "insert" /\ todo = {} /\ phase' = "run" /\ UNCHANGED <<f, todo, liveOuts, execVars>>

Execution == phase = "run" /\ Run /\ UNCHANGED <<todo, liveOuts, phase>>

OutDone ==
  /\ phase = "aborted" \/ (phase = "run" /\ Stopped)
  /\ UNCHANGED <<f, outVars, execVars>>

LONext == Erase \/ (\E a \in Args : Insert(a)) \/ EnterFunction \/ Execution \/ OutDone

LOSpec == LOInit /\ [][LONext]_<<f, outVars, execVars>>

-----------------------------------------------------------------------------
(* Properties                                                              *)

(* What the caller takes for the argument after the call: the live-out     *)
(* that names it, else the version it passed.                              *)
SeenByCaller(a) ==
  IF \E v \in DOMAIN liveOuts : liveOuts[v] = Position(a)
  THEN CHOOSE v \in DOMAIN liveOuts : liveOuts[v] = Position(a) ELSE a

(* When the function has returned, the version that its caller sees of     *)
(* each collection is the last one written, on every path, whatever        *)
(* metadata the function had before.                                       *)
CallerSeesLatest ==
  phase = "run" /\ Returned =>
    \A a \in Args : LET v == SeenByCaller(a) IN v \in DOMAIN env /\ env[v] = <<ArgObject(a), mem[ArgObject(a)]>>

(* Every argument finds its live-out, and no two share one, unless the     *)
(* function may get where it does not return any more.                     *)
EveryLiveOutIsFound ==
  phase \in {"insert", "run", "aborted"} =>
    /\ phase = "aborted" => CannotReach(SingleReturn) # {}
    /\ \A v, w \in DOMAIN liveOuts : liveOuts[v] = liveOuts[w] => v = w

(* The caller sees the version of each argument that was written last, and *)
(* every argument finds its live-out, or the function may not return.      *)
CallersFindLatest == CallerSeesLatest /\ EveryLiveOutIsFound
=============================================================================
