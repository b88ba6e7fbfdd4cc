---------------------------- MODULE TypeInference ---------------------------
(***************************************************************************)
(* TypeInference: the arguments of functions that no assertion types get   *)
(* the type of what a fold or a caller passes; the callers' arguments are  *)
(* inferred first, by recursion, a stack machine here.  What is inferred   *)
(* is only written into the program, as assertions, when all of it was     *)
(* visited; the pipeline runs the pass twice.  A program p has             *)
(*   order:  its functions, as the module lists them;                      *)
(*   args:   the number of arguments of each;                              *)
(*   types:  the asserted type of some arguments, <<function, number>>,    *)
(*           and returns, <<function, 0>>;                                 *)
(*   calls:  the calls of each function, [by, of], in the order of its     *)
(*           uses: the caller and the operands;                            *)
(*   fold:   what the only fold with a function as its body passes, the    *)
(*           initial value first: a list of operands, or <<>>.             *)
(* An operand is <<"type", t>>, a value for which type_of finds t;         *)
(* <<"null">>, any other value; or <<"arg", F, k>>.                        *)
(***************************************************************************)
EXTENDS Integers, Sequences, FiniteSets

CONSTANTS
  Modules,       (* the programs                                           *)
  MainFunction,  (* the function main                                      *)
  Passes,        (* how often the pipeline runs the pass                   *)
  MaxCalls       (* bound: the depth of the recursion                      *)

IsOperand(m, o) ==
  \/ o = <<"null">>
  \/ o = <<"type", o[2]>>
  \/ o = <<"arg", o[2], o[3]>> /\ o[2] \in DOMAIN m.args /\ o[3] \in 1 .. m.args[o[2]]

(* Every function is listed, a call and a fold have an operand for each    *)
(* argument, a fold's body takes what the fold accumulates, and main is    *)
(* called by nobody.                                                       *)
IsWhole(m) ==
  /\ IsFiniteSet(DOMAIN m.args) /\ m.args \in [DOMAIN m.args -> Nat]
  /\ m.order \in Seq(DOMAIN m.args)
  /\ \A F \in DOMAIN m.args :
       /\ \E i \in DOMAIN m.order : m.order[i] = F
       /\ m.calls[F] \in Seq({m.calls[F][k] : k \in DOMAIN m.calls[F]})
       /\ \A k \in DOMAIN m.calls[F] :
            /\ m.calls[F][k].by \in DOMAIN m.args
            /\ \A n \in 1 .. m.args[F] : IsOperand(m, m.calls[F][k].of[n])
       /\ m.fold[F] # <<>> =>
            /\ m.args[F] > 0
            /\ \A n \in 1 .. m.args[F] : IsOperand(m, m.fold[F][n])
       /\ F = MainFunction => m.calls[F] = <<>> /\ m.fold[F] = <<>>

ASSUME ModulesAreWhole == \A m \in Modules : IsWhole(m)

(* The bound lets every function be inferred on behalf of another.         *)
ASSUME DepthAssumption == \A m \in Modules : MaxCalls \in Nat /\ Cardinality(DOMAIN m.args) < MaxCalls

VARIABLES
  program,    (* the program                                               *)
  asserted,   (* the types that assertions give to arguments and returns   *)
  inferred,   (* argument_types_to_annotate, return_types_to_annotate      *)
  inferring,  (* the calls of infer: [fun, arg, use, asked]                *)
  nextFun,    (* the function of the module that is visited next           *)
  runs,       (* runs of the pass that have ended                          *)
  outcome     (* "running", "done" or "endless"                            *)

inferVars == <<program, asserted, inferred, inferring, nextFun, runs, outcome>>

Untyped == <<"null">>

Slots == UNION {{<<F, k>> : k \in 0 .. program.args[F]} : F \in DOMAIN program.args}

(* The types that the program itself asserts.                              *)
OwnTypes(s) == {program.types[x] : x \in {s} \cap DOMAIN program.types}

(* type_of: only assertions type an argument; one of them is found.        *)
TypeOf(operand) ==
  IF operand[1] = "arg" /\ asserted[<<operand[2], operand[3]>>] # {}
  THEN {<<"type", t>> : t \in asserted[<<operand[2], operand[3]>>]}
  ELSE IF operand[1] = "type" THEN {operand} ELSE {Untyped}

Caller == inferring[Len(inferring)]

Continued(c) == [inferring EXCEPT ![Len(inferring)] = c]

Record(slot, t) ==
  inferred' = [s \in DOMAIN inferred \cup {slot} |-> IF s = slot THEN t ELSE inferred[s]]

NextArgument == inferring' = Continued([Caller EXCEPT !.arg = @ + 1, !.use = 0, !.asked = FALSE])

Call_(F) == [fun |-> F, arg |-> 1, use |-> 0, asked |-> FALSE]

TIInit ==
  /\ program \in Modules
  /\ asserted = [s \in Slots |-> OwnTypes(s)]
  /\ inferred = <<>>
  /\ inferring = <<>>
  /\ nextFun = 1
  /\ runs = 0
  /\ outcome = "running"

(* MUTANT: the walk over the module does not go on.                        *)
InferSameFunction ==
  /\ outcome = "running" /\ inferring = <<>> /\ nextFun <= Len(program.order)
  /\ inferring' = IF program.order[nextFun] = MainFunction THEN <<>> ELSE <<Call_(program.order[nextFun])>>
  /\ UNCHANGED <<program, asserted, inferred, nextFun, runs, outcome>>

(* infer(M): every function but main.                                      *)
InferFunction ==
  /\ outcome = "running" /\ inferring = <<>> /\ nextFun <= Len(program.order)
  /\ inferring' = IF program.order[nextFun] = MainFunction THEN <<>> ELSE <<Call_(program.order[nextFun])>>
  /\ nextFun' = nextFun + 1
  /\ UNCHANGED <<program, asserted, inferred, runs, outcome>>

Working == outcome = "running" /\ inferring # <<>> /\ Len(inferring) < MaxCalls

AtArgument == Working /\ Caller.use = 0 /\ Caller.arg <= program.args[Caller.fun]

Slot == <<Caller.fun, Caller.arg>>

(* An argument of main, one inferred before, or one with an assertion.     *)
KnownArgument ==
  /\ AtArgument
  /\ \/ (Slot \in DOMAIN inferred \/ Caller.fun = MainFunction) /\ UNCHANGED inferred
     \/ /\ Slot \notin DOMAIN inferred /\ Caller.fun # MainFunction
        /\ \E t \in asserted[Slot] : Record(Slot, <<"type", t>>)
  /\ NextArgument
  /\ UNCHANGED <<program, asserted, nextFun, runs, outcome>>

(* MUTANT: an assertion in the program is not looked for.                  *)
UnknownButAsserted == Slot \notin DOMAIN inferred /\ Caller.fun # MainFunction

(* No type yet and no assertion.                                           *)
Unknown == Slot \notin DOMAIN inferred /\ Caller.fun # MainFunction /\ asserted[Slot] = {}

(* The body of a single fold: what the fold passes, typed or not, is taken.*)
ArgumentOfFold ==
  /\ AtArgument /\ Unknown
  /\ program.fold[Caller.fun] # <<>>
  /\ \E t \in TypeOf(program.fold[Caller.fun][Caller.arg]) : Record(Slot, t)
  /\ NextArgument
  /\ UNCHANGED <<program, asserted, nextFun, runs, outcome>>

LookAtCallers ==
  /\ AtArgument /\ Unknown
  /\ program.fold[Caller.fun] = <<>>
  /\ inferring' = Continued([Caller EXCEPT !.use = 1])
  /\ UNCHANGED <<program, asserted, inferred, nextFun, runs, outcome>>

AtCall ==
  Working /\ Caller.use > 0 /\ Caller.use <= Len(program.calls[Caller.fun])

TheCall == program.calls[Caller.fun][Caller.use]

(* The caller's arguments are inferred first, if it is another function.   *)
InferCaller ==
  /\ AtCall /\ ~Caller.asked
  /\ LET asked == Continued([Caller EXCEPT !.asked = TRUE]) IN
     inferring' = IF TheCall.by = Caller.fun THEN asked ELSE Append(asked, Call_(TheCall.by))
  /\ UNCHANGED <<program, asserted, inferred, nextFun, runs, outcome>>

(* The first operand that has a type types the argument.                   *)
TypeOperand ==
  /\ AtCall /\ Caller.asked
  /\ \E t \in TypeOf(TheCall.of[Caller.arg]) :
       IF t # Untyped THEN Record(Slot, t) /\ NextArgument
       ELSE /\ inferring' = Continued([Caller EXCEPT !.use = @ + 1, !.asked = FALSE])
            /\ UNCHANGED inferred
  /\ UNCHANGED <<program, asserted, nextFun, runs, outcome>>

NoTypedCaller ==
  /\ Working /\ Caller.use > Len(program.calls[Caller.fun])
  /\ Record(Slot, Untyped)
  /\ NextArgument
  /\ UNCHANGED <<program, asserted, nextFun, runs, outcome>>

(* infer_return_type, last; the returned values are never collected, so    *)
(* only an assertion or a fold types a return.                             *)
InferReturn ==
  LET F == Caller.fun
      slot == <<F, 0>> IN
  /\ Working /\ Caller.use = 0 /\ Caller.arg > program.args[F]
  /\ IF slot \in DOMAIN inferred \/ F = MainFunction THEN UNCHANGED inferred
     ELSE IF asserted[slot] # {} THEN \E t \in asserted[slot] : Record(slot, <<"type", t>>)
     ELSE \E t \in IF program.fold[F] = <<>> THEN {Untyped} ELSE TypeOf(program.fold[F][1]) : Record(slot, t)
  /\ inferring' = SubSeq(inferring, 1, Len(inferring) - 1)
  /\ UNCHANGED <<program, asserted, nextFun, runs, outcome>>

(* annotate: one more assertion for each type, then the pass starts anew.  *)
Annotate ==
  /\ outcome = "running" /\ inferring = <<>> /\ nextFun > Len(program.order)
  /\ asserted' = [s \in Slots |-> asserted[s] \cup
                    {inferred[x][2] : x \in {y \in {s} \cap DOMAIN inferred : inferred[y] # Untyped}}]
  /\ inferred' = <<>>
  /\ nextFun' = 1
  /\ runs' = runs + 1
  /\ outcome' = IF runs + 1 = Passes THEN "done" ELSE "running"
  /\ UNCHANGED <<program, inferring>>

Endless ==
  /\ outcome = "running" /\ Len(inferring) = MaxCalls
  /\ outcome' = "endless"
  /\ UNCHANGED <<program, asserted, inferred, inferring, nextFun, runs>>

TIStep ==
  \/ InferFunction \/ KnownArgument \/ ArgumentOfFold \/ LookAtCallers
  \/ InferCaller \/ TypeOperand \/ NoTypedCaller \/ InferReturn
  \/ Annotate \/ Endless

TINext == TIStep \/ (outcome # "running" /\ UNCHANGED inferVars)

TISpec == TIInit /\ [][TINext]_inferVars /\ WF_inferVars(TIStep)

-----------------------------------------------------------------------------
(* Properties                                                              *)

(* What calls pass to an argument; to the body of a fold, what the fold    *)
(* passes.                                                                 *)
Passed(s) ==
  IF program.fold[s[1]] # <<>> THEN {program.fold[s[1]][s[2]]}
  ELSE {c.of[s[2]] : c \in {program.calls[s[1]][k] : k \in DOMAIN program.calls[s[1]]}}

(* What a value brings, when the types near have come to the arguments.   *)
Brings(near, o) ==
  IF o[1] = "type" THEN {o[2]} ELSE IF o[1] = "arg" THEN near[<<o[2], o[3]>>] ELSE {}

OneFurther(near) ==
  [s \in Slots |->
     IF OwnTypes(s) # {} \/ s[2] = 0 THEN OwnTypes(s)
     ELSE UNION {Brings(near, o) : o \in Passed(s)}]

(* The types that come to an argument in n calls from a typed value or an  *)
(* assertion of the program.                                               *)
TypesWithin(n) ==
  LET far[i \in 0 .. n] == IF i = 0 THEN [s \in Slots |-> OwnTypes(s)] ELSE OneFurther(far[i - 1])
  IN  far[n]

AllTypes == TypesWithin(Cardinality(Slots))

(* All that comes to an argument has one type, the one asserted.           *)
Typable ==
  LET types == AllTypes IN
  \A s \in Slots : s[2] # 0 =>
    /\ \A t, u \in types[s] : t = u
    /\ \A o \in Passed(s) : Brings(types, o) \subseteq types[s]

(* By either run of the pass, an argument is only asserted to have the     *)
(* type the program asserts or, without one, a type that comes to it.      *)
AssertionsAgree ==
  \A s \in Slots : s[2] # 0 => asserted[s] \subseteq AllTypes[s]

(* A run of the pass types every argument to which some caller, or the     *)
(* fold, passes a typed value or an argument that is typed: one call       *)
(* further.                                                                *)
OneCallFurther ==
  LET types == TypesWithin(runs) IN
  \A s \in Slots : s[2] # 0 /\ s[1] # MainFunction /\ types[s] # {} => asserted[s] # {}

(* The body of a fold and what it accumulates have the same type.          *)
BodiesReturnWhatTheyTake ==
  outcome = "done" /\ Typable =>
    \A F \in DOMAIN program.args :
      program.fold[F] # <<>> /\ asserted[<<F, 0>>] # {} /\ <<F, 0>> \notin DOMAIN program.types
        => asserted[<<F, 1>>] = asserted[<<F, 0>>]

(* The functions that call F, directly or not.                             *)
Calling(F) == {program.calls[F][k].by : k \in DOMAIN program.calls[F]} \ {F}

CallersOf(F) ==
  LET far[n \in 0 .. Cardinality(DOMAIN program.args)] ==
        IF n = 0 THEN Calling(F)
        ELSE LET near == far[n - 1] IN near \cup UNION {Calling(G) : G \in near}
  IN  far[Cardinality(DOMAIN program.args)]

(* The recursion ends unless functions call one another in a circle.       *)
EndlessOnlyInCircles == outcome = "endless" => \E F \in DOMAIN program.args : F \in CallersOf(F)

(* What is inferred comes from the callers, by one call further in each    *)
(* run; a body returns what it accumulates; and only a circle is endless.  *)
InferredFromCallers ==
  AssertionsAgree /\ OneCallFurther /\ BodiesReturnWhatTheyTake /\ EndlessOnlyInCircles

InferenceEnds == <>(outcome # "running")

(* "annotating all untyped MEMOIR variables": what has one type has it     *)
(* when the pipeline has run the pass.                                     *)
AllAreAnnotated ==
  outcome = "done" =>
    \A s \in Slots : s[1] # MainFunction /\ s[2] # 0 /\ AllTypes[s] # {} => asserted[s] # {}
=============================================================================
