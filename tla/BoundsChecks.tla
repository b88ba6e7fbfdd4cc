---------------------------- MODULE BoundsChecks ----------------------------
(***************************************************************************)
(* BoundsCheckAnalysis: which keys each version of an association is known *)
(* to have or, negated, not to have.  Then the function runs, and the      *)
(* facts are compared with what its versions hold.                         *)
(*                                                                         *)
(* A function has blocks of instructions [op, def, obj, key]: alloc,       *)
(* insert, remove, write, clear, fold (obj: initial value), retphi, copy;  *)
(* its PHIs, [def, from]; and for a block that branches on has(obj, key)   *)
(* the pair in has, the first successor being taken where it holds.        *)
(* A check is <<key, negated>>; keys are numbers, the order of their       *)
(* addresses, and all checks have one index: index_order reads past the    *)
(* end of the shorter of two.  A set of checks is a sorted sequence.       *)
(***************************************************************************)
EXTENDS Integers, Sequences, FiniteSets, SequencesExt, FiniteSetsExt, TLC

CONSTANTS
  CheckedFunctions,  (* the functions                                      *)
  KeyNames,          (* the keys, which are arguments                      *)
  KeyValues,         (* their values                                       *)
  MaxBlocks          (* the blocks that an execution runs through          *)

VARIABLES
  fn,        (* the function                                               *)
  result,    (* the facts of the values that have some                     *)
  worklist,  (* the values to propagate, the last one first                *)
  todo,      (* the users that the value that was popped still has         *)
  taken,     (* the values whose facts were handed to their users          *)
  late,      (* PHIs that lost facts after that                            *)
  phase,     (* "analyze", "run", "end"                                    *)
  here,      (* the block and the instruction that runs                    *)
  keyval,    (* the values of the keys                                     *)
  holds,     (* the keys that each version holds                           *)
  fuel       (* the blocks still to run                                    *)

bcVars == <<fn, result, worklist, todo, taken, late, phase, here, keyval, holds, fuel>>

-----------------------------------------------------------------------------
(* Sets of checks.                                                         *)
Fact(k) == <<k, FALSE>>
Not(k) == <<k, TRUE>>

Less(c, d) == c[1] < d[1] \/ (c[1] = d[1] /\ ~c[2] /\ d[2])

First(S, it, Found(_)) ==
  Min({Len(S) + 1} \cup {i \in it .. Len(S) : Found(S[i])})

(* join: ConflictOrder, which does not see negations, from the iterator    *)
(* on; a check that meets its negation removes it and is not inserted.     *)
JoinOne(a, v) ==
  LET S == a[1]
      lower == First(S, a[2], LAMBDA c : c[1] >= v[1])
      upper == First(S, a[2], LAMBDA c : c[1] > v[1])
  IN  IF lower = upper THEN <<InsertAt(S, upper, v), upper + 1>>
      ELSE IF S[lower][2] # v[2] THEN <<RemoveAt(S, lower), lower>>
      ELSE <<S, upper>>

Join(S, other) == FoldLeft(JoinOne, <<S, 1>>, other)[1]

(* meet: std::set_intersection.                                            *)
Times(S, c) == Cardinality({i \in DOMAIN S : S[i] = c})

MeetOne(S, other, kept, i) ==
  IF Times(kept, S[i]) < Times(other, S[i]) THEN Append(kept, S[i]) ELSE kept

Meet(S, other) == FoldLeftDomain(LAMBDA kept, i : MeetOne(S, other, kept, i), <<>>, S)

(* insert: TotalOrder, which takes a check and its negation for two.       *)
Inserted(S, c) ==
  IF c \in Range(S) THEN S
  ELSE InsertAt(S, First(S, 1, LAMBDA d : Less(c, d)), c)

-----------------------------------------------------------------------------
(* The function.                                                           *)
Blocks == DOMAIN fn.code
Phis == UNION {Range(fn.phis[b]) : b \in Blocks}
Instrs == UNION {Range(fn.code[b]) : b \in Blocks}
Incoming(phi) == {phi.from[b] : b \in DOMAIN phi.from}
FirstIncoming(phi) == phi.from[Min(DOMAIN phi.from)]

UsersOf(v) == {i \in Instrs : i.obj = v} \cup {x \in Phis : v \in Incoming(x)}

IsPhi(x) == "from" \in DOMAIN x

(* A fact about an absent value is that of an empty set, which operator[]  *)
(* then enters.                                                            *)
FactsOf(r, v) == IF v \in DOMAIN r THEN r[v] ELSE <<>>
Set(r, v, S) == [x \in DOMAIN r \cup {v} |-> IF x = v THEN S ELSE r[x]]

-----------------------------------------------------------------------------
(* transfer, giving the facts of the user; it tells whether they changed   *)
(* by the size of the set.                                                 *)
(* MUTANT: the user of a remove keeps the facts of what it removes from.   *)
TransferRemoveKeeps(r, i) == Inserted(Join(FactsOf(r, i.def), r[i.obj]), Not(i.key))

TransferRemove(r, i) == Inserted(FactsOf(r, i.def), Not(i.key))

TransferInsert(r, i) ==
  IF Len(Join(FactsOf(r, i.def), r[i.obj])) # Len(FactsOf(r, i.def))
  THEN Join(FactsOf(r, i.def), r[i.obj])
  ELSE Inserted(Join(FactsOf(r, i.def), r[i.obj]), Fact(i.key))

Transferred(r, i) ==
  CASE i.op = "insert" -> TransferInsert(r, i)
    [] i.op = "remove" -> TransferRemove(r, i)
    [] i.op = "write" -> Join(FactsOf(r, i.def), r[i.obj])
    [] i.op \in {"clear", "fold", "retphi"} -> FactsOf(r, i.def)

Started(r, x) ==
  IF x.def \in DOMAIN r THEN r
  ELSE Set(Set(r, FirstIncoming(x), FactsOf(r, FirstIncoming(x))),
           x.def, FactsOf(r, FirstIncoming(x)))

TransferredPhi(r, x) ==
  FoldSet(LAMBDA v, S : Meet(S, r[v]), r[x.def], Incoming(x) \cap DOMAIN r)

Push(v) == IF v \in Range(worklist) THEN worklist ELSE Append(worklist, v)

(* add_control_flow_facts: a PHI in a successor of a branch on has.        *)
BranchFacts(b) ==
  IF fn.has[b] = <<>> THEN {}
  ELSE UNION {{<<x.def, IF s = 1 THEN Fact(fn.has[b][2]) ELSE Not(fn.has[b][2])>> :
                 x \in {y \in Range(fn.phis[fn.succ[b][s]]) : y.from[b] = fn.has[b][1]}} : s \in 1 .. 2}

ControlFlowFacts == UNION {BranchFacts(b) : b \in Blocks}

(* The loop that is to give each argument an empty set goes over blocks.   *)
InitialFacts ==
  [v \in {i.def : i \in {j \in Instrs : j.op = "alloc"}} \cup {c[1] : c \in ControlFlowFacts} |->
     IF \E c \in ControlFlowFacts : c[1] = v
     THEN <<(CHOOSE c \in ControlFlowFacts : c[1] = v)[2]>> ELSE <<>>]

Init ==
  /\ fn \in CheckedFunctions
  /\ result = InitialFacts
  /\ worklist \in SetToSeqs(DOMAIN InitialFacts)
  /\ todo = {} /\ taken = {} /\ late = {} /\ phase = "analyze"
  /\ here = <<>> /\ keyval = <<>> /\ holds = <<>> /\ fuel = 0

Pop ==
  /\ phase = "analyze" /\ todo = {} /\ worklist # <<>>
  /\ todo' = UsersOf(Last(worklist))
  /\ taken' = taken \cup {Last(worklist)}
  /\ worklist' = Front(worklist)
  /\ UNCHANGED <<fn, result, late, phase, here, keyval, holds, fuel>>

(* The facts of an update are asked for with operator[] before its kind is *)
(* looked at, so that a clear never is one without: its users get nothing. *)
Propagate(i) ==
  /\ phase = "analyze" /\ ~IsPhi(i)
  /\ i \in todo /\ todo' = todo \ {i}
  /\ IF i.op = "copy" THEN UNCHANGED <<result, worklist>>
     ELSE /\ result' = Set(result, i.def, Transferred(result, i))
          /\ worklist' = IF \/ Len(result'[i.def]) # Len(FactsOf(result, i.def))
                            \/ i.op \in {"fold", "retphi"} /\ i.def \notin DOMAIN result
                         THEN Push(i.def) ELSE worklist
  /\ UNCHANGED <<fn, taken, late, phase, here, keyval, holds, fuel>>

PropagateToPhi(x) ==
  /\ phase = "analyze" /\ IsPhi(x)
  /\ x \in todo /\ todo' = todo \ {x}
  /\ result' = Set(Started(result, x), x.def, TransferredPhi(Started(result, x), x))
  /\ worklist' = IF \/ Len(FactsOf(Started(result, x), x.def)) # Len(FactsOf(result, x.def))
                    \/ Len(result'[x.def]) # Len(FactsOf(Started(result, x), x.def))
                 THEN Push(x.def) ELSE worklist
  /\ late' = IF x.def \in taken /\ result'[x.def] # result[x.def] THEN late \cup {x.def} ELSE late
  /\ UNCHANGED <<fn, taken, phase, here, keyval, holds, fuel>>

Call ==
  /\ phase = "analyze" /\ todo = {} /\ worklist = <<>>
  /\ phase' = "run"
  /\ here' = <<1, 1>> /\ fuel' = MaxBlocks
  /\ keyval' \in [KeyNames -> KeyValues]
  /\ holds' \in [Range(fn.args) -> SUBSET KeyValues]
  /\ UNCHANGED <<fn, result, worklist, todo, taken, late>>

(* The function runs.                                                      *)
Outcomes(i) ==
  CASE i.op = "alloc"  -> {{}}
    [] i.op = "insert" -> {holds[i.obj] \cup {keyval[i.key]}}
    [] i.op = "remove" -> {holds[i.obj] \ {keyval[i.key]}}
    [] i.op = "clear"  -> {{}}
    [] i.op \in {"write", "copy"} -> {holds[i.obj]}
    [] i.op \in {"fold", "retphi"} -> SUBSET KeyValues

Step ==
  /\ phase = "run" /\ here[2] \in DOMAIN fn.code[here[1]]
  /\ \E S \in Outcomes(fn.code[here[1]][here[2]]) :
       holds' = Set(holds, fn.code[here[1]][here[2]].def, S)
  /\ here' = <<here[1], here[2] + 1>>
  /\ UNCHANGED <<fn, result, worklist, todo, taken, late, phase, keyval, fuel>>

Taken(b, s) ==
  fn.has[b] # <<>> => ((s = 1) <=> keyval[fn.has[b][2]] \in holds[fn.has[b][1]])

Branch ==
  /\ phase = "run" /\ here[2] = Len(fn.code[here[1]]) + 1
  /\ IF fuel = 0 \/ fn.succ[here[1]] = <<>> THEN phase' = "end" /\ UNCHANGED <<here, holds, fuel>>
     ELSE \E s \in DOMAIN fn.succ[here[1]] :
            /\ Taken(here[1], s)
            /\ here' = <<fn.succ[here[1]][s], 1>>
            /\ holds' = [v \in DOMAIN holds \cup {x.def : x \in Range(fn.phis[here'[1]])} |->
                           IF \E x \in Range(fn.phis[here'[1]]) : x.def = v
                           THEN holds[(CHOOSE x \in Range(fn.phis[here'[1]]) : x.def = v).from[here[1]]]
                           ELSE holds[v]]
            /\ fuel' = fuel - 1 /\ UNCHANGED phase
  /\ UNCHANGED <<fn, result, worklist, todo, taken, late, keyval>>

Ended == phase = "end" /\ UNCHANGED bcVars

BCNext ==
  \/ Pop
  \/ \E i \in todo : Propagate(i)
  \/ \E x \in todo : PropagateToPhi(x)
  \/ Call
  \/ Step
  \/ Branch
  \/ Ended

-----------------------------------------------------------------------------
(* PHIs whose facts may be wrong: some of their values never handed on     *)
(* theirs, or they lost facts that their users had taken.                  *)
Doubtful == {x.def : x \in {y \in Phis : y.def \in late \/ ~(Incoming(y) \subseteq taken)}}

RECURSIVE Downstream(_, _)
Downstream(vs, ops) ==
  LET new == {i.def : i \in {j \in Instrs : j.op \in ops /\ j.obj \in vs}}
               \cup {x.def : x \in {y \in Phis : Incoming(y) \cap vs # {}}}
  IN  IF new \subseteq vs THEN vs ELSE Downstream(vs \cup new, ops)

Keeping == {"insert", "write"}

(* Versions that hold a key that was inserted after a remove.              *)
Refilled == Downstream({i.def : i \in {j \in Instrs : j.op = "insert"}}, Keeping)

(* A key that a version is known to have is there whenever the version is  *)
(* computed, and one that it is known not to have is not; unless the fact  *)
(* comes through a PHI that ignored a version, which is not handed on if   *)
(* it got no facts or is that of a clear, or that lost the fact when it    *)
(* had been handed on, for facts only ever join those of the users; and    *)
(* negated facts only as far as the next insert, which takes over the      *)
(* negation of its own key and, because a join that changed something is   *)
(* not followed by the insertion, may not even add it.                     *)
KnownKeysAreThere ==
  phase \in {"run", "end"} =>
    \A v \in (DOMAIN holds \cap DOMAIN result) \ Downstream(Doubtful, Keeping) :
      \A i \in DOMAIN result[v] :
        LET c == result[v][i] IN
        IF c[2] THEN v \notin Refilled => keyval[c[1]] \notin holds[v]
        ELSE keyval[c[1]] \in holds[v]

(* What the comment in transfer says of an insert.                         *)
InsertAddsItsKey ==
  phase = "run" =>
    \A i \in {j \in Instrs : j.op = "insert" /\ j.def \in DOMAIN result} :
      Fact(i.key) \in Range(result[i.def])

(* The worklist is emptied: the sets of PHIs only lose facts.              *)
BoundsAnalysisEnds == <>(phase # "analyze")
=============================================================================
