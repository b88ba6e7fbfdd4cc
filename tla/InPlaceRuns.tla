---------------------------- MODULE InPlaceRuns ----------------------------
(***************************************************************************)
(* Functions in the SSA form that SSA construction leaves, and what they   *)
(* do when every update writes its object in place, which is how they are  *)
(* lowered.  A function f has                                              *)
(*   args : the list of its collections that are arguments;                *)
(*   blocks, entry, succ : as in ControlFlow;                              *)
(*   phis : the list of PHIs of a block, [def, from], from a function of   *)
(*          the predecessors;                                              *)
(*   code : the other instructions of a block, [op, def, obj, uses], the   *)
(*          last of which is the terminator: "end" or "unreachable".       *)
(* An update, a fold over an initial collection and a RetPHI make a new    *)
(* version of obj; a UsePHI passes it on; alloc and copy make an object.   *)
(***************************************************************************)
EXTENDS ControlFlow

CONSTANTS
  Absent,     (* no value                                                  *)
  MaxSteps    (* bound: the instructions that an execution executes        *)

VARIABLES
  f,          (* the function                                              *)
  at,         (* the next point of its execution: <<block, instruction>>   *)
  env,        (* the object and the version that a value stands for        *)
  mem,        (* the version that an object has                            *)
  steps,      (* instructions executed                                     *)
  stale       (* a value was read whose version was overwritten            *)

execVars == <<at, env, mem, steps, stale>>

Nph(b) == Len(f.phis[b])

PhiDefs(b) == {f.phis[b][k].def : k \in 1 .. Nph(b)}

AllCode == UNION {{f.code[b][k] : k \in 1 .. Len(f.code[b])} : b \in f.blocks}

AllPhis == UNION {{f.phis[b][k] : k \in 1 .. Nph(b)} : b \in f.blocks}

Incoming(phi) == {phi.from[p] : p \in DOMAIN phi.from}

ArgsOf(g) == {g.args[k] : k \in DOMAIN g.args}

Args == ArgsOf(f)

(* The values whose definitions dominate the k-th instruction of a block.  *)
Available(g, b, k) ==
  LET PhisOf(c) == {g.phis[c][n].def : n \in 1 .. Len(g.phis[c])}
      CodeOf(c) == {g.code[c][n].def : n \in 1 .. Len(g.code[c])}
      Above     == {c \in g.blocks : BlockDominates(g, c, b)} IN
  (ArgsOf(g) \cup (UNION {PhisOf(c) : c \in Above}) \cup (UNION {CodeOf(c) : c \in Above \ {b}})
     \cup {g.code[b][n].def : n \in 1 .. k - 1}) \ {Absent}

(* What makes a version is defined nowhere else.                           *)
DefinedOnce(g, b, k) ==
  LET d == g.code[b][k].def IN
  /\ d # Absent /\ d \notin ArgsOf(g)
  /\ \A c \in g.blocks :
       /\ \A n \in 1 .. Len(g.phis[c]) : g.phis[c][n].def # d
       /\ \A n \in 1 .. Len(g.code[c]) : g.code[c][n].def = d => c = b /\ n = k

(* The objects: those of the arguments, and those made by instructions.    *)
ArgObject(a) == <<"arg", a>>
MadeObject(n) == <<"made", n>>

(* An argument has an object of its own, at version 0.                     *)
RunInit ==
  /\ at = <<f.entry, 1>>
  /\ env = [a \in Args |-> <<ArgObject(a), 0>>]
  /\ mem = [o \in {ArgObject(a) : a \in Args} |-> 0]
  /\ steps = 0
  /\ stale = FALSE

Here == f.code[at[1]][at[2]]

AtTerminator == at[2] = Len(f.code[at[1]])

Returned == AtTerminator /\ f.succ[at[1]] = <<>> /\ Here.op = "end"

Stopped == steps = MaxSteps \/ (AtTerminator /\ f.succ[at[1]] = <<>>)

Overwritten(v) == mem[env[v][1]] # env[v][2]

Reads(i) == stale' = (stale \/ \E v \in i.uses : Overwritten(v))

With(g, x, y) == [w \in DOMAIN g \cup {x} |-> IF w = x THEN y ELSE g[w]]

Execute ==
  LET i == Here
      n == steps + 1 IN
  /\ ~Stopped /\ ~AtTerminator
  /\ at' = <<at[1], at[2] + 1>>
  /\ steps' = n
  /\ Reads(i)
  /\ CASE i.op \in {"alloc", "copy"} ->
            env' = With(env, i.def, <<MadeObject(n), n>>) /\ mem' = With(mem, MadeObject(n), n)
       [] i.op \in {"update", "fold", "retphi"} ->
            LET o == env[i.obj][1] IN
            env' = With(env, i.def, <<o, n>>) /\ mem' = With(mem, o, n)
       [] i.op = "usephi" -> env' = With(env, i.def, env[i.obj]) /\ UNCHANGED mem
       [] OTHER -> UNCHANGED <<env, mem>>

(* Control takes an edge: all PHIs of the target happen at once.           *)
Branch(s) ==
  LET b    == at[1]
      phis == f.phis[s]
      Phi(v) == CHOOSE k \in 1 .. Nph(s) : phis[k].def = v IN
  /\ ~Stopped /\ AtTerminator
  /\ s \in SuccSet(f, b)
  /\ at' = <<s, 1>>
  /\ steps' = steps + 1
  /\ Reads(Here)
  /\ env' = [v \in DOMAIN env \cup PhiDefs(s) |->
               IF v \in PhiDefs(s) THEN env[phis[Phi(v)].from[b]] ELSE env[v]]
  /\ UNCHANGED mem

Run == UNCHANGED f /\ (Execute \/ \E s \in f.blocks : Branch(s))
=============================================================================
