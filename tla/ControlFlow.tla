---------------------------- MODULE ControlFlow ----------------------------
(***************************************************************************)
(* The control-flow graphs the passes of MEMOIR walk, and the analyses     *)
(* LLVM hands them: dominator tree and dominance frontier.  A graph is a   *)
(* record with                                                             *)
(*   blocks : the basic blocks, all reachable from entry,                  *)
(*   entry  : the entry block,                                             *)
(*   succ   : the successor list of each block's terminator, in order; a   *)
(*            switch may list one block twice.                             *)
(* LLVM is not part of the repository: DominatorTreeAnalysis and           *)
(* DominanceFrontierAnalysis are given by their textbook definitions.      *)
(***************************************************************************)
EXTENDS Integers, Sequences, FiniteSets

SuccSet(g, b) == {g.succ[b][k] : k \in DOMAIN g.succ[b]}

Preds(g, b) == {p \in g.blocks : b \in SuccSet(g, p)}

(* The control edges; an edge is a block and a position of its successors. *)
Edges(g) == UNION {{p} \X DOMAIN g.succ[p] : p \in g.blocks}

EdgesInto(g, b) == {e \in Edges(g) : g.succ[e[1]][e[2]] = b}

(* No block is a successor of the same block twice.                        *)
SimpleEdges(g) ==
  \A b \in g.blocks : \A j, k \in DOMAIN g.succ[b] : g.succ[b][j] = g.succ[b][k] => j = k

(* A set of blocks that holds entry and is closed under succ holds all.    *)
AllReachable(g) ==
  \A S \in SUBSET g.blocks :
    g.entry \in S /\ (\A b \in S : SuccSet(g, b) \subseteq S) => S = g.blocks

(* The blocks that control can reach from entry without entering block d:  *)
(* the least set that holds entry and is closed under succ.                *)
ReachableAvoiding(g, d) ==
  LET Rest == g.blocks \ {d}
      Closed(S) == \A p \in S : SuccSet(g, p) \ {d} \subseteq S
  IN  {b \in Rest : \A S \in SUBSET Rest : g.entry \in S /\ Closed(S) => b \in S}

BlockDominates(g, d, b) ==
  \/ d = b
  \/ d = g.entry
  \/ b \notin ReachableAvoiding(g, d)

DominatorPairs(g) == {x \in g.blocks \X g.blocks : BlockDominates(g, x[1], x[2])}

(* b is in the frontier of d when d dominates a predecessor of b but does  *)
(* not strictly dominate b.                                                *)
Frontier(g, dom, d) ==
  {b \in g.blocks : /\ \E p \in Preds(g, b) : <<d, p>> \in dom
                    /\ (<<d, b>> \in dom => d = b)}

(* The children of d in the dominator tree.                                *)
DomChildren(g, dom, d) ==
  {b \in g.blocks \ {d} :
     /\ <<d, b>> \in dom
     /\ \A c \in g.blocks \ {b} : <<c, b>> \in dom => <<c, d>> \in dom}

(* A graph together with the results of the two analyses.                  *)
Analysed(g) ==
  LET dom == DominatorPairs(g) IN
  [blocks   |-> g.blocks,
   entry    |-> g.entry,
   succ     |-> g.succ,
   dom      |-> dom,
   frontier |-> [d \in g.blocks |-> Frontier(g, dom, d)],
   children |-> [d \in g.blocks |-> DomChildren(g, dom, d)]]

(* The results of the analyses are those of the graph.                     *)
AnalysisIsSound(g) ==
  /\ g.dom = DominatorPairs(g)
  /\ \A d \in g.blocks : /\ g.frontier[d] = Frontier(g, g.dom, d)
                         /\ g.children[d] = DomChildren(g, g.dom, d)
=============================================================================
