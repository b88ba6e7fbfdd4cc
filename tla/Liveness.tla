------------------------------ MODULE Liveness -----------------------------
(***************************************************************************)
(* LivenessAnalysis: which values are live before (IN) and after (OUT) an  *)
(* instruction of a function in SSA form.  NOELLE's DataFlowEngine, which  *)
(* is not part of the repository, visits blocks until nothing changes,     *)
(* each from its last instruction to its first; a block is visited here as *)
(* a whole and in any order.  InPlaceRuns says what a function is.         *)
(***************************************************************************)
EXTENDS InPlaceRuns

CONSTANT Programs   (* the functions                                      *)

VARIABLES
  liveIn,     (* IN of each instruction, the PHIs of a block first         *)
  liveOut     (* OUT of each instruction                                   *)

liveVars == <<liveIn, liveOut>>

Instructions(b) == 1 .. Nph(b) + Len(f.code[b])

PhiUses(b, from) == {f.phis[b][k].from[from] : k \in 1 .. Nph(b)}

Gen(b, k) ==
  IF k <= Nph(b) THEN {f.phis[b][k].from[p] : p \in Preds(f, b)}
  ELSE f.code[b][k - Nph(b)].uses

Kill(b, k) == {IF k <= Nph(b) THEN f.phis[b][k].def ELSE f.code[b][k - Nph(b)].def}

-----------------------------------------------------------------------------
(* MUTANT: the PHIs of the successor are taken for ordinary instructions.  *)
InOnEdgeByPhis(from, to) == liveIn[to][1]

(* What compute_out adds for a successor with PHIs: in their order, the    *)
(* incoming value is inserted and the PHI itself is erased.                *)
InOnEdge(from, to) ==
  LET walked[k \in 0 .. Nph(to)] ==
        IF k = 0 THEN liveIn[to][Nph(to) + 1]
        ELSE (walked[k - 1] \cup {f.phis[to][k].from[from]}) \ {f.phis[to][k].def}
  IN  walked[Nph(to)]

(* OUT and IN of the instructions of a block: <<OUT, IN>> of each.         *)
Transferred(b) ==
  LET n == Nph(b) + Len(f.code[b])
      flow[i \in 1 .. n] ==
        LET out == IF i = n THEN UNION {InOnEdge(b, s) : s \in SuccSet(f, b)}
                   ELSE flow[i + 1].in
        IN  [out |-> out, in |-> (out \ Kill(b, i)) \cup Gen(b, i)]
  IN  flow

Nothing == [b \in f.blocks |-> [k \in Instructions(b) |-> {}]]

LInit ==
  /\ liveIn = Nothing
  /\ liveOut = Nothing

(* A block is visited; it stays on the worklist while a visit changes it.  *)
Stable(b) ==
  LET flow == Transferred(b) IN
  \A k \in Instructions(b) : liveIn[b][k] = flow[k].in /\ liveOut[b][k] = flow[k].out

Visit(b) ==
  LET flow == Transferred(b) IN
  /\ ~Stable(b)
  /\ liveIn' = [liveIn EXCEPT ![b] = [k \in Instructions(b) |-> flow[k].in]]
  /\ liveOut' = [liveOut EXCEPT ![b] = [k \in Instructions(b) |-> flow[k].out]]

LivenessDone == \A b \in f.blocks : Stable(b)

(* live_values(From, To): the values live on a control edge.               *)
LiveOnEdge(from, to) ==
  (liveIn[to][Nph(to) + 1] \ PhiDefs(to))
    \cup PhiUses(to, from)
    \cup (liveOut[from][Nph(from) + Len(f.code[from])] \cap PhiDefs(to))

-----------------------------------------------------------------------------
(* The reference: points are instructions that are no PHI and control      *)
(* edges, on which all PHIs of the target happen at once.  A value is      *)
(* needed at a point from which a path leads to a use of it and does not   *)
(* define it before.                                                       *)
Points == (UNION {{<<"at", b, k>> : k \in 1 .. Len(f.code[b])} : b \in f.blocks})
            \cup UNION {{<<"edge", b, s>> : s \in SuccSet(f, b)} : b \in f.blocks}

IsEdge(x) == x[1] = "edge"

Using(x) == IF IsEdge(x) THEN PhiUses(x[3], x[2]) ELSE f.code[x[2]][x[3]].uses

Defining(x) == IF IsEdge(x) THEN PhiDefs(x[3]) ELSE {f.code[x[2]][x[3]].def}

After(x) ==
  IF IsEdge(x) THEN {<<"at", x[3], 1>>}
  ELSE IF x[3] < Len(f.code[x[2]]) THEN {<<"at", x[2], x[3] + 1>>}
  ELSE {<<"edge", x[2], s>> : s \in SuccSet(f, x[2])}

Needed ==
  LET within[n \in 0 .. Cardinality(Points)] ==
        IF n = 0 THEN [x \in Points |-> Using(x)]
        ELSE LET nearer == within[n - 1] IN
             [x \in Points |->
                Using(x) \cup ((UNION {nearer[y] : y \in After(x)}) \ Defining(x))]
  IN  within[Cardinality(Points)]

(* The PHIs that they themselves, or an earlier PHI of their block, carry  *)
(* round a loop: InOnEdge inserts them and erases them again.              *)
CarriedPhis ==
  UNION {{f.phis[b][k].def : k \in {n \in 1 .. Nph(b) :
            \E m \in 1 .. n : \E p \in Preds(f, b) :
               f.phis[b][m].from[p] = f.phis[b][n].def}} : b \in f.blocks}

-----------------------------------------------------------------------------
(***************************************************************************)
(* verify_linearity (ir/src/Verifier.cpp) on the result of the liveness    *)
(* analysis: the versions of a collection are put into one part, and no    *)
(* two values of a part may be live at the same point.  What it promises   *)
(* is that updates may then happen in place: the function is executed, in  *)
(* place, after it was accepted.  Only Write, Insert, Remove and Clear are *)
(* UpdateInsts: the verifier does not follow folds and RetPHIs.            *)
(* Verifier::verify returns before it calls verify_linearity; the function *)
(* is modelled as it stands.                                               *)
(***************************************************************************)

VARIABLES
  verdict,    (* "pending", "linear" or "rejected"                         *)
  missed      (* the walk over the union-find missed a PHI added to it     *)

vars == <<f, liveVars, verdict, missed, execVars>>

(* LLVM's verifier: a function is finite, its control stays within it and  *)
(* a block ends with a terminator.                                         *)
ASSUME ProgramsAreWhole ==
  \A g \in Programs :
    /\ IsFiniteSet(g.blocks)
    /\ \A b \in g.blocks : /\ SuccSet(g, b) \subseteq g.blocks
                           /\ Len(g.phis[b]) \in Nat /\ Len(g.code[b]) \in Nat \ {0}

(* They are in SSA form, as LLVM's verifier has it, their updates use the  *)
(* object, and they are without folds and RetPHIs, which verify_linearity  *)
(* does not follow.                                                        *)
ASSUME ProgramsAreInSSA ==
  \A g \in Programs :
    /\ AllReachable(g) /\ g.entry \in g.blocks /\ Len(g.phis[g.entry]) = 0
    /\ \A b \in g.blocks :
         /\ \A k \in 1 .. Len(g.phis[b]) :
              /\ DOMAIN g.phis[b][k].from = Preds(g, b)
              /\ \A p \in Preds(g, b) : g.phis[b][k].from[p] \in Available(g, p, Len(g.code[p]) + 1)
         /\ \A k \in 1 .. Len(g.code[b]) :
              LET i == g.code[b][k] IN
              /\ i.uses \subseteq Available(g, b, k)
              /\ \/ i.op \in {"alloc", "copy"} /\ DefinedOnce(g, b, k)
                 \/ i.op = "update" /\ DefinedOnce(g, b, k) /\ i.obj \in i.uses
                 \/ i.op \in {"read", "end", "unreachable"} /\ i.def = Absent
              /\ k = Len(g.code[b]) => i.op \in {"end", "unreachable"}

Updates == {i \in AllCode : i.op = "update"}

(* The merges of the walk over the instructions: an update's result with   *)
(* its object and, by gather_variables, an object that is a PHI with what  *)
(* it joins.                                                               *)
UpdateMerges ==
  {<<i.def, i.obj>> : i \in Updates}
    \cup UNION {{<<phi.def, v>> : v \in Incoming(phi)} :
                  phi \in {p \in AllPhis : \E i \in Updates : i.obj = p.def}}

Tracked ==
  Args \cup {i.def : i \in {j \in AllCode : j.op \in {"alloc", "copy"}}}
    \cup UNION {{e[1], e[2]} : e \in UpdateMerges}

(* The merges of the walk over the union-find, which visits the variables  *)
(* that are in it and those of the added ones that it does not miss.       *)
PhiMerges(visited) ==
  UNION {{<<phi.def, v>> : v \in Incoming(phi) \cap visited} : phi \in AllPhis}

(* MUTANT: the PHIs that use a version are not gathered.                   *)
MergesNoPhis(visited) == UpdateMerges

Merges(visited) == UpdateMerges \cup PhiMerges(visited)

(* The partition: the variables joined by merges.                          *)
Part(merges, v) ==
  LET joined[n \in 0 .. Cardinality(merges)] ==
        IF n = 0 THEN {v}
        ELSE LET near == joined[n - 1] IN
             near \cup UNION {{e[1], e[2]} : e \in
                {m \in merges : m[1] \in near \/ m[2] \in near}}
  IN  joined[Cardinality(merges)]

(* check_live_set: at most one variable of each part is live.              *)
OneOfEachPart(merges, live) ==
  \A v, w \in live : v # w => w \notin Part(merges, v)

(* check_call never adds an operand to the set it tests, and accepts all.  *)
Accepted(merges) ==
  \A b \in f.blocks :
    /\ \A s \in SuccSet(f, b) : OneOfEachPart(merges, LiveOnEdge(b, s))
    /\ \A k \in Instructions(b) :
         k > Nph(b) => OneOfEachPart(merges, liveIn[b][k])

Init ==
  /\ f \in Programs
  /\ RunInit
  /\ LInit
  /\ verdict = "pending"
  /\ missed = FALSE

Verify ==
  /\ LivenessDone
  /\ verdict = "pending"
  /\ \E late \in SUBSET ({p.def : p \in AllPhis} \ Tracked) :
       LET visited == Tracked \cup late
           merges  == Merges(visited) IN
       /\ verdict' = IF Accepted(merges) THEN "linear" ELSE "rejected"
       /\ missed' = (\E e \in merges : {e[1], e[2]} \ visited # {})
  /\ UNCHANGED <<f, liveVars, execVars>>

(* An accepted function is executed.                                       *)
RunAccepted == verdict = "linear" /\ Run /\ UNCHANGED <<liveVars, verdict, missed>>

Done ==
  /\ verdict = "rejected" \/ (verdict = "linear" /\ Stopped)
  /\ UNCHANGED vars

Next ==
  \/ \E b \in f.blocks : Visit(b) /\ UNCHANGED <<f, verdict, missed, execVars>>
  \/ Verify
  \/ RunAccepted
  \/ Done

Spec == Init /\ [][Next]_vars /\ WF_vars(Next)

-----------------------------------------------------------------------------
(* Properties                                                              *)

(* A version that nobody reads is dropped by the analysis at its birth and *)
(* so never clashes, although the update overwrites its object.            *)
EveryVersionIsUsed ==
  \A i \in Updates : \/ \E j \in AllCode : i.def \in j.uses
                      \/ \E p \in AllPhis : i.def \in Incoming(p)

(* What is recorded as live is needed on some path, at every moment of the *)
(* fixpoint, before instructions and on edges.                             *)
NothingDeadIsLive ==
  verdict = "pending" =>
  LET needed == Needed IN
  \A b \in f.blocks : \A k \in 1 .. Len(f.code[b]) :
    liveIn[b][Nph(b) + k] \subseteq needed[<<"at", b, k>>]

(* When the analysis has ended, what a path needs is recorded, but for     *)
(* PHIs that a PHI carries round a loop before it is itself erased.         *)
NeededIsLive ==
  verdict \in {"linear", "rejected"} /\ steps = 0 =>
    LET needed == Needed IN
    \A b \in f.blocks :
      /\ \A k \in 1 .. Len(f.code[b]) :
           needed[<<"at", b, k>>] \ CarriedPhis \subseteq liveIn[b][Nph(b) + k]
      /\ \A s \in SuccSet(f, b) :
           needed[<<"edge", b, s>>] \ CarriedPhis \subseteq LiveOnEdge(b, s)

(* What is found to be live is needed on a path, and the other way round.  *)
LivenessIsExact == NothingDeadIsLive /\ NeededIsLive

(* "OUT = U_succ IN": what is live on an edge, by the analysis's own       *)
(* live_values, is live after the terminator of the block that it leaves.  *)
EdgesLeaveOut ==
  verdict # "pending" =>
    \A b \in f.blocks : \A s \in SuccSet(f, b) :
      LiveOnEdge(b, s) \subseteq liveOut[b][Nph(b) + Len(f.code[b])]

(* In a function found linear, updates in place are not noticed: no value  *)
(* is read after its version was overwritten.                              *)
InPlaceIsSafe ==
  verdict = "linear" /\ stale => missed \/ CarriedPhis # {} \/ ~EveryVersionIsUsed

(* The analysis reaches a fixpoint and the function gets its verdict.      *)
Decided == <>(verdict # "pending")
=============================================================================
