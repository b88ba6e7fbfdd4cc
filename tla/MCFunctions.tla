---------------------------- MODULE MCFunctions ----------------------------
(***************************************************************************)
(* Families of small functions for the model checker: every assignment of  *)
(* a menu of instructions to the blocks of a few control-flow graphs.      *)
(***************************************************************************)
EXTENDS SSAConstruction, TLC

Ins(op, obj, in, def, mutates) ==
  [op |-> op, obj |-> obj, in |-> in, def |-> def, mutates |-> mutates]

Mut(n)       == <<Ins("mut", n, Absent, Absent, FALSE)>>
MutIn(n, m)  == <<Ins("mut", n, m, Absent, FALSE)>>
Read(n)      == <<Ins("read", n, Absent, Absent, FALSE)>>
Size(n)      == <<Ins("access", n, Absent, Absent, FALSE)>>
Copy(n, d)   == <<Ins("copy", n, Absent, d, FALSE)>>
Use(n)       == <<Ins("use", n, Absent, Absent, FALSE)>>
Alloc(d)     == <<Ins("alloc", Absent, Absent, d, FALSE)>>
Call(n)      == <<Ins("call", n, Absent, Absent, FALSE)>>
Fold(c, n)   == <<Ins("fold", n, c, Absent, TRUE)>>
FoldPure(c, n) == <<Ins("fold", n, c, Absent, FALSE)>>
Ret(n)       == <<Ins("ret", n, Absent, Absent, FALSE)>>
None         == <<>>

Graph(bs, e, s) == [blocks |-> bs, entry |-> e, succ |-> s]

(* An if-then-else, a loop, a loop whose body branches, a loop left from   *)
(* its middle, a branch with two returns.                                  *)
Diamond == Analysed(Graph(1 .. 4, 1, << <<2, 3>>, <<4>>, <<4>>, <<>> >>))
Loop == Analysed(Graph(1 .. 4, 1, << <<2>>, <<3, 4>>, <<2>>, <<>> >>))
LoopIf == Analysed(Graph(1 .. 5, 1, << <<2>>, <<3, 5>>, <<4, 2>>, <<2>>, <<>> >>))
Break == Analysed(Graph(1 .. 5, 1, << <<2>>, <<3, 5>>, <<4, 5>>, <<2>>, <<>> >>))
Fork == Analysed(Graph(1 .. 4, 1, << <<2, 3>>, <<4>>, <<>>, <<>> >>))

(* What the theorems on the renaming suppose of a graph.                   *)
ASSUME GraphsAreSimple == \A g \in {Diamond, Loop, LoopIf, Break, Fork} : SimpleEdges(g)

NoPhis(g) == [b \in g.blocks |-> <<>>]

Program(g, args, phis, code) ==
  [blocks |-> g.blocks, entry |-> g.entry, succ |-> g.succ, dom |-> g.dom,
   frontier |-> g.frontier, children |-> g.children,
   args |-> args, phis |-> phis, code |-> code]

(* Every choice from a menu for each block; the entry starts with first, a *)
(* block that returns ends with last.                                      *)
Bodies(g, first, menu, last) ==
  {[b \in g.blocks |-> IF b = g.entry THEN first
                       ELSE IF g.succ[b] = <<>> THEN f[b] \o last
                       ELSE f[b]] :
     f \in [g.blocks \ {g.entry} -> menu]}

Functions(graphs, args, first, menu, last) ==
  UNION {{Program(g, args, NoPhis(g), c) : c \in Bodies(g, first, menu, last)} : g \in graphs}

(* One argument, mutated, read and passed to a call.                       *)
OneArgument ==
  Functions({Diamond, Loop, LoopIf, Break, Fork}, {"a"}, Call("a"),
            {Mut("a"), Read("a")}, Read("a") \o Ret(Absent))

(* Two arguments that feed each other, as inputs and as closed objects.    *)
FeedEachOther == {Mut("a"), MutIn("b", "a"), Fold("a", "b") \o FoldPure("b", "a")}

TwoArguments ==
  Functions({Diamond, Loop}, {"a", "b"}, Size("a"), FeedEachOther, Use("a") \o Ret("b"))
    \cup Functions({Fork}, {"a", "b"}, Mut("a"), {None, MutIn("b", "a")}, Use("a") \o Ret(Absent))

(* A fold over one of two arguments that closes on both.                   *)
ClosedOnBoth ==
  Functions({Loop}, {"a", "b"}, None, {None, Fold("a", "b") \o Fold(Absent, "a")},
            Read("b") \o Ret("a"))

(* An argument and a copy of it.                                           *)
CopyOfArgument ==
  Functions({Diamond, Loop}, {"a"}, Mut("a") \o Copy("a", "b") \o Read("b"),
            {Mut("a"), MutIn("b", "a")},
            Read("b") \o Read("a") \o Ret("b"))

(* A PHI of the source joins two objects of a branch, or carries one       *)
(* around a loop.                                                          *)
JoinPhi == [NoPhis(Diamond) EXCEPT ![4] = "p" :> (<<2, 1>> :> "a" @@ <<3, 1>> :> "b")]
LoopPhi(n) == [NoPhis(Loop) EXCEPT ![2] = "p" :> (<<1, 1>> :> "a" @@ <<3, 1>> :> n)]

Joins(menu, last) ==
  {Program(Diamond, {}, JoinPhi,
           <<Alloc("a") \o Alloc("b"), x, y, z \o last>>) :
     x \in {None, Mut("a"), Mut("b")}, y \in {None, Mut("a"), Mut("b")}, z \in menu}

Carried ==
  {Program(Loop, {}, LoopPhi("q"), <<Alloc("a"), x, y, Read("p") \o Ret("p")>>) :
     x \in {None, Mut("p"), Read("p")},
     y \in {Copy("p", "q"), Mut("p") \o Copy("p", "q") \o Mut("q"),
            Copy("p", "q") \o Read("q"), Copy("p", "q") \o MutIn("q", "p")}}
  \cup
  {Program(Loop, {}, LoopPhi("p"), <<Alloc("a"), x, y, Read("p") \o Ret("p")>>) :
     x \in {None, Mut("p"), Read("p")}, y \in {None, Mut("p"), Read("p") \o Mut("p")}}

SourcePhiFunctions == Joins({None, Mut("p"), Read("p")}, Read("p") \o Ret("p")) \cup Carried

(* A call under a branch; an object read after a PHI it is an input of; an *)
(* argument mutated in a loop.                                             *)
BranchCall == Functions({Diamond}, {"a"}, None, {None, Call("a")}, Read("a") \o Ret(Absent))
ReadAfterPhi == Joins({None}, Read("a") \o Ret("p"))
LoopMutation == Functions({Loop}, {"a"}, None, {None, Mut("a")}, Ret(Absent))

MCNames == {"a", "b", "p", "q"}
=============================================================================
