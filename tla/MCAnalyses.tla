----------------------------- MODULE MCAnalyses -----------------------------
(***************************************************************************)
(* The analyses and the rewrites around them for the model checker: the    *)
(* one that runs is chosen first.  Linearity and live-out insertion share  *)
(* the function and its execution; the variables of the others start with  *)
(* the analysis, but for coercion and dead code.  Before them come the     *)
(* programs that they are checked on.                                      *)
(***************************************************************************)
EXTENDS Liveness, LiveOutInsertion, DeadCode, Coerce, TypeInference, TLC

CONSTANTS
  Graphs, Root, Element, Referenced, MaxDepth,
  Mutations, Size, LLVMOf(_), NullType,
  CheckedFunctions, KeyNames, KeyValues, MaxBlocks,
  Primitives, SelectionNames, NoName, Lengths, FieldTypes, MaxMade, MaxFields,
  ReifiedModules, InitialArg, Own, ClosedKeyword, MaxActive,
  Calls, TypeOfObject, Places, MaxAdded

-----------------------------------------------------------------------------
(* Functions for linearity and live-out insertion.                         *)
Ins(op, def, obj, uses) == [op |-> op, def |-> def, obj |-> obj, uses |-> uses]
New(d) == <<Ins("alloc", d, Absent, {})>>
Upd(d, o) == <<Ins("update", d, o, {o})>>
Rd(v) == <<Ins("read", Absent, Absent, {v})>>
Cp(d, o) == <<Ins("copy", d, Absent, {o})>>
End == <<Ins("end", Absent, Absent, {})>>
None == <<>>

Graph(args, succ, phis, code) ==
  [args |-> args, blocks |-> 1 .. Len(succ), entry |-> 1, succ |-> succ, phis |-> phis, code |-> code]

Diamond(phis, code) == Graph(<<>>, << <<2, 3>>, <<4>>, <<4>>, <<>> >>, phis, code)
Loop(phis, code) == Graph(<<>>, << <<2>>, <<3, 4>>, <<2>>, <<>> >>, phis, code)
Phi(d, from) == [def |-> d, from |-> from]

(* Versions of a joined after a branch.                                    *)
Joined ==
  {Diamond(<< <<>>, <<>>, <<>>, <<Phi("p", 2 :> x @@ 3 :> y)>> >>,
           <<New("a") \o n, Upd("u", "a") \o l \o End, r \o End, j \o End>>) :
     x \in {"a", "u"}, y \in {"a"}, n \in {End, Cp("c", "a") \o End},
     l \in {None, Rd("a"), Rd("u")}, r \in {None, Rd("a")},
     j \in {None, Rd("p"), Rd("a"), Upd("q", "p") \o Rd("q"), Upd("q", "p") \o Rd("p") \o Rd("q"),
            Upd("q", "p") \o Rd("a") \o Rd("q")}}
  \cup
  {Diamond(<< <<>>, <<>>, <<>>, <<Phi("p", 2 :> "a" @@ 3 :> "a")>> >>,
           <<New("a") \o End, End, End, Upd("q", "a") \o Rd(x) \o Rd("q") \o End>>) : x \in {"p", "q"}}

(* A version of a carried round a loop.                                    *)
Carried ==
  {Loop(<< <<>>, <<Phi("p", 1 :> "a" @@ 3 :> x)>>, <<>>, <<>> >>,
        <<New("a") \o End, h \o End, Upd("u", "p") \o l \o End, j \o End>>) :
     x \in {"p", "u", "a"}, h \in {None, Rd("p"), Rd("a")}, l \in {None, Rd("p"), Rd("u"), Rd("a")},
     j \in {None, Rd("p"), Rd("a"), Upd("q", "p") \o Rd("q")}}

(* Two PHIs of a loop, which may exchange their versions.                  *)
Swap ==
  {Loop(<< <<>>, ph, <<>>, <<>> >>,
        <<New("a") \o New("b") \o End, h \o End, Upd("u", "p") \o l \o End, j \o End>>) :
     ph \in {<<Phi("p", 1 :> "a" @@ 3 :> "u"), Phi("q", 1 :> "b" @@ 3 :> "p")>>,
             <<Phi("q", 1 :> "b" @@ 3 :> "p"), Phi("p", 1 :> "a" @@ 3 :> "u")>>,
             <<Phi("p", 1 :> "a" @@ 3 :> "u"), Phi("q", 1 :> "b" @@ 3 :> "q")>>,
             <<Phi("p", 1 :> "a" @@ 3 :> "q"), Phi("q", 1 :> "b" @@ 3 :> "u")>>,
             <<Phi("q", 1 :> "b" @@ 3 :> "u"), Phi("p", 1 :> "a" @@ 3 :> "q")>>},
     h \in {None, Rd("p"), Rd("q")}, l \in {None, Rd("q"), Rd("u")}, j \in {None, Rd("q"), Rd("p")}}

Redef(d, o, op) == <<Ins(op, d, o, {o})>>
Exit == <<Ins("unreachable", Absent, Absent, {})>>

Redefs == {"update", "retphi", "usephi", "fold"}

(* Redefinitions of an argument a, and of b, in straight lines, branches,  *)
(* loops left from their header and from their latch, before exits, and    *)
(* beside a loop without an end.                                           *)
MCLiveOutPrograms ==
  {Graph(<<"b", "a">>, << <<2, 3>>, <<4>>, <<4>>, <<>> >>,
         << <<>>, <<>>, <<>>, <<Phi("p", 2 :> x @@ 3 :> "a")>> >>,
         <<z \o End, Redef("u", "a", o1) \o Redef("v", "u", o2) \o End, End, y \o End>>) :
     x \in {"v"}, o1 \in Redefs, o2 \in Redefs, z \in {None, Redef("c", "b", "update")},
     y \in {None, Redef("q", "p", "update"), Redef("q", "p", "usephi")}}
  \cup
  {Graph(<<"a">>, << <<2>>, <<3, 4>>, <<2>>, <<>> >>,
         << <<>>, <<Phi("p", 1 :> "a" @@ 3 :> "u")>>, <<>>, <<>> >>,
         <<End, h, Redef("u", o, op) \o End, y \o End>>) :
     h \in {End}, o \in {"p"}, op \in Redefs, y \in {None, Redef("q", "p", "update")}}
  \cup
  {Graph(<<"a">>, << <<2>>, <<2, 3>>, <<>> >>,
         << <<>>, <<Phi("p", 1 :> "a" @@ 2 :> "u")>>, <<Phi("l", 2 :> "u")>> >>,
         <<End, Redef("u", "p", op) \o End, y \o End>>) :
     op \in Redefs, y \in {None, Redef("q", "l", "update")}}
  \cup
  {Graph(<<"a">>, << <<2, 3>>, <<>>, <<4, 5>>, <<5>>, <<>> >>,
         << <<>>, <<>>, <<>>, <<>>, <<>> >>,
         <<xz[1] \o End, Exit, End, End, xz[2] \o End>>) :
     xz \in {<<None, None>>, <<None, Redef("w", "a", "update")>>, <<Redef("u", "a", "update"), None>>,
             <<Redef("u", "a", "update"), Redef("w", "u", "update")>>}}
  \cup
  {Graph(<<"a">>, << <<2, 3>>, <<>>, <<4, 5>>, <<5>>, <<>> >>,
         << <<>>, <<>>, <<>>, <<>>, <<>> >>,
         <<Redef("u", "a", "update") \o End, Exit, Redef("w", "u", "update") \o End, End, z \o End>>) :
     z \in {None, Redef("q", "w", "update")}}
  \cup
  {Graph(<<"a">>, succ, << <<>>, <<>>, <<>>, <<>> >>,
         <<Redef("u", "a", "retphi") \o End, Redef("w", "u", "update") \o End, End, z \o End>>) :
     succ \in {<< <<2>>, <<3>>, <<4>>, <<>> >>, << <<2>>, <<3, 4>>, <<3>>, <<>> >>,
               << <<2, 3>>, <<4>>, <<3>>, <<>> >>},
     z \in {None, Redef("q", "w", "usephi")}}

(* The version that an argument has, from the entry on.                    *)
MCVersionAt(g, b, k, a) ==
  LET Within(c, v) ==
        LET after[n \in 0 .. Len(g.code[c])] ==
              IF n = 0 THEN v
              ELSE LET i == g.code[c][n] IN
                   IF i.op \in Redefs /\ i.obj = after[n - 1] THEN i.def ELSE after[n - 1]
        IN  after
      Along(p, c, v) ==
        LET joins == {g.phis[c][n] : n \in {m \in DOMAIN g.phis[c] : g.phis[c][m].from[p] = v}} IN
        IF joins = {} THEN v ELSE (CHOOSE phi \in joins : TRUE).def
      begins[n \in 1 .. Cardinality(g.blocks)] ==
        IF n = 1 THEN g.entry :> a
        ELSE LET known == begins[n - 1]
                 next == {c \in g.blocks \ DOMAIN known : Preds(g, c) \cap DOMAIN known # {}} IN
             [c \in DOMAIN known \cup next |->
                IF c \in DOMAIN known THEN known[c]
                ELSE LET p == CHOOSE q \in Preds(g, c) : q \in DOMAIN known IN
                     Along(p, c, Within(p, known[p])[Len(g.code[p])])]
  IN  Within(b, begins[Cardinality(g.blocks)][b])[k - 1]

(* Versions of an argument, and of its copy.                               *)
Given ==
  {Graph(<<"a">>, << <<2, 3>>, <<4>>, <<4>>, <<>> >>,
         << <<>>, <<>>, <<>>, <<Phi("p", 2 :> "u" @@ 3 :> "a")>> >>,
         <<Cp("c", "a") \o End, Upd("u", "a") \o l \o End, End, j \o End>>) :
     l \in {None, Rd("a"), Rd("c")},
     j \in {Upd("q", "p") \o Rd("q"), Upd("q", "p") \o Rd("a") \o Rd("q"), Upd("q", "c") \o Rd("q") \o Rd("p")}}

MCPrograms == Joined \cup Carried \cup Swap \cup Given

-----------------------------------------------------------------------------
(* Graphs of values for the type checker.                                  *)
V(op, t, of) == [op |-> op, t |-> t, of |-> of]
Ty(t) == V("typed", t, <<>>)
NoType == V("null", "", <<>>)
Arg == V("arg", "", <<>>)
Join(a, b) == V("phi", "", <<a, b>>)
One(op, a) == V(op, "", <<a>>)
(* PHIs whose types come from what they are merged with.                   *)
Guesses ==
  {[v \in {"r", "p", "q", "s", "t", "x", "y"} |->
      CASE v = "r" -> Join("p", "s") [] v = "p" -> Join(b, "x") [] v = "q" -> q [] v = "s" -> One(op, "t")
        [] v = "t" -> Join("q", "q") [] v = "x" -> Ty("ss") [] OTHER -> Arg] :
   b \in {"q", "t"}, q \in {Join("y", "y"), Join("q", "q"), Join("y", "x")}, op \in {"copy", "same", "get"}}
MCGraphs ==
  Guesses \cup
  {[v \in {"r", "p", "q", "s", "x", "y"} |->
      CASE v = "r" -> r [] v = "p" -> p [] v = "q" -> q [] v = "s" -> One("copy", "p") [] v = "x" -> x [] OTHER -> y] :
   x \in {Ty("ss"), Arg, NoType}, y \in {Ty("ss"), Ty("s"), Ty("n"), NoType},
   p \in {Join(a, b) : a, b \in {"x", "y", "p", "q"}},
   q \in {One("same", "p"), One("copy", "p"), One("get", "p"), One("read", "p"), V("load", "", <<"x", "p">>),
           V("load", "", <<>>), Join("x", "p"), Join("r", "y")},
   r \in {Join("p", "q"), Join("q", "p"), Join("q", "s"), One("copy", "p"), One("same", "q"), One("get", "p"),
          V("load", "", <<"q", "p">>)}}
MCSizeType == <<"int", 64>>
MCElement == "ss" :> "s" @@ "s" :> "prim" @@ "n" :> "ref"
MCReferenced == "ref" :> "n"
-----------------------------------------------------------------------------
(* Programs for type inference.                                            *)
Passes_(t) == <<"type", t>>
ArgOf(F, k) == <<"arg", F, k>>
Nothing_ == <<"null">>
CallBy(by, of) == [by |-> by, of |-> of]
MCModules ==
  {[order |-> o, args |-> "main" :> 0 @@ "f" :> 1 @@ "g" :> 2 @@ "h" :> 1,
    types |-> ts,
    calls |-> [F \in {"main", "f", "g", "h"} |->
       CASE F = "main" -> <<>> [] F = "f" -> cf [] F = "g" -> cg [] OTHER -> ch],
    fold |-> [F \in {"main", "f", "g", "h"} |-> IF F = "h" THEN fh ELSE <<>>]] :
   o \in {<<"main", "f", "g", "h">>, <<"h", "g", "f", "main">>},
   ts \in {<<>>, <<"f", 1>> :> "s", <<"g", 2>> :> "s", <<"h", 0>> :> "s", <<"h", 1>> :> "t"},
   cf \in {<<CallBy("main", <<Passes_("s")>>)>>, <<CallBy("main", <<Nothing_>>), CallBy("main", <<Passes_("t")>>)>>,
           <<CallBy("f", <<ArgOf("f", 1)>>), CallBy("main", <<Passes_("s")>>)>>, <<CallBy("g", <<ArgOf("g", 1)>>), CallBy("main", <<Passes_("s")>>)>>},
   cg \in {<<CallBy("f", <<ArgOf("f", 1), Nothing_>>)>>, <<CallBy("f", <<ArgOf("f", 1), ArgOf("f", 1)>>)>>,
           <<CallBy("main", <<Passes_("t"), Nothing_>>), CallBy("f", <<Passes_("s"), ArgOf("f", 1)>>)>>, <<CallBy("h", <<ArgOf("h", 1), Passes_("s")>>)>>},
   ch \in {<<>>, <<CallBy("g", <<ArgOf("g", 2)>>)>>, <<CallBy("f", <<ArgOf("f", 1)>>), CallBy("g", <<ArgOf("g", 1)>>)>>},
   fh \in {<<>>, <<ArgOf("f", 1)>>, <<Passes_("s")>>, <<ArgOf("g", 1)>>}}
-----------------------------------------------------------------------------
(* Accesses for coercion.                                                  *)
Bits(w) == <<"int", w>>
Plain(t) == [kind |-> "plain", as |-> t]
Map(k, e) == [kind |-> "assoc", key |-> Plain(k), elem |-> e]
Seq_(e) == [kind |-> "seq", elem |-> e]
Tuple(fields) == [kind |-> "tuple", fields |-> fields]

Objects ==
  LET leaf == {Plain(Bits(32)), Plain(<<"float", 64>>), Plain(<<"ptr">>)}
      one  == {Map(Bits(8), e) : e \in leaf} \cup {Seq_(e) : e \in leaf}
                \cup {Map(<<"ptr">>, Plain(Bits(32)))}
      two  == {Map(Bits(64), e) : e \in one} \cup {Seq_(e) : e \in one}
      tup  == {Tuple(<<Plain(Bits(8)), e>>) : e \in one} IN
  one \cup two \cup tup \cup {Tuple(<<Plain(Bits(8)), e>>) : e \in tup}
    \cup {Map(Bits(8), e) : e \in tup}

Depth(t) ==
  LET down[n \in 0 .. 3] ==
        IF n = 0 THEN t
        ELSE LET u == down[n - 1] IN
             IF u.kind = "plain" THEN u ELSE IF u.kind = "tuple" THEN u.fields[2] ELSE u.elem
  IN  Cardinality({n \in 0 .. 3 : down[n].kind # "plain"})

MCAccesses ==
  UNION {{[obj |-> t, index |-> ix, field |-> [k \in 1 .. Depth(t) |-> 2],
             value |-> v[1], op |-> v[2]] :
            ix \in [1 .. Depth(t) -> {Bits(8), Bits(64), <<"ptr">>}],
            v \in ({<<>>, Bits(8), <<"float", 32>>} \X {<<>>}) \cup {<<Bits(8), Bits(8)>>}} : t \in Objects}

-----------------------------------------------------------------------------
(* Functions for dead code elimination: a later instruction may use an     *)
(* earlier one, and a PHI a later one.                                     *)
MCDeadFunctions ==
  {[i \in 1 .. 4 |-> [uses |-> us[i], effect |-> i \in e, liveOut |-> i \in l]] :
     us \in {u \in [1 .. 4 -> {{}, {1}, {2}, {1, 2}, {3}, {1, 3}}] :
              u[1] \in {{}, {1}, {3}} /\ u[2] \in {{}, {1}} /\ u[3] \subseteq {1, 2}},
     e \in {{}, {3}, {4}}, l \in {{}, {2}, {3}}}

-----------------------------------------------------------------------------
(* Programs whose types MutateType changes.                                *)

Nil == "nil"

Prim(n) == [kind |-> "prim", name |-> n]
Float == Prim("f32")
Void == [kind |-> "void"]
ListOf(e) == [kind |-> "seq", elem |-> e, sel |-> Nil]
MapOf(k, e) == [kind |-> "assoc", key |-> k, elem |-> e, sel |-> Nil]
SetOf(k) == MapOf(k, Void)
StructOf(fs) == [kind |-> "tuple", fields |-> fs]

MCSizeOfIds == Prim("u64")
MCLLVMType(t) ==
  CASE t.kind # "prim" -> "ptr"
    [] t.name \in {"u64", "i64"} -> "64 bits"
    [] OTHER -> t.name

Op(op, def, obj, path, in, fun, type) ==
  <<[op |-> op, def |-> def, obj |-> obj, path |-> path, in |-> in, fun |-> fun, type |-> type]>>

Makes(d, t) == Op("alloc", d, Nil, <<>>, <<>>, Nil, t)
Asserts(o, t) == Op("assert", Nil, o, <<>>, <<>>, Nil, t)
ReadOf(d, o, path, t) == Op("read", d, o, path, <<>>, Nil, t)
Writes(d, o, path, t) == Op("write", d, o, path, <<>>, Nil, t)
Inserts(d, o, path) == Op("insert", d, o, path, <<>>, Nil, Nil)
Copies(d, o) == Op("copy", d, o, <<>>, <<>>, Nil, Nil)
Joins(d, in, lt) == Op("phi", d, Nil, <<>>, in, Nil, lt)
RetPhi(d, o) == Op("retphi", d, o, <<>>, <<>>, Nil, Nil)
Folds(d, o, path, in, body) == Op("fold", d, o, path, in, body, Nil)
CallsFun(fun, in) == Op("call", Nil, Nil, <<>>, in, fun, Nil)

(* Functions are <<name, parameters, their LLVM types, code>>.             *)
Mutation(funs, keysOnly, enc, objects) ==
  LET names == {funs[i][1] : i \in DOMAIN funs}
      fun(F) == CHOOSE h \in {funs[i] : i \in DOMAIN funs} : h[1] = F
  IN  [code |-> [F \in names |-> fun(F)[4]], params |-> [F \in names |-> fun(F)[2]],
       paramTypes |-> [F \in names |-> fun(F)[3]],
       keysOnly |-> keysOnly, encoded |-> enc, objects |-> objects]

MainOf(code) == <<"main", <<>>, <<>>, code>>
LowKey(k) == MCLLVMType(k)

(* A map from k to e is written, read, joined, handed to a function and    *)
(* folded over, the body joining its keys.                                 *)
PlainMap(k, e, w) ==
  Mutation(
    <<MainOf(Makes("m", MapOf(k, e)) \o Inserts("m1", "m", <<-1>>) \o Writes("m2", "m1", <<-1>>, e)
             \o ReadOf("x", "m2", <<-1>>, e) \o ReadOf("y", "m", <<-1>>, e)
             \o Joins("z", <<"x", "y">>, MCLLVMType(e)) \o Joins("zz", <<"z", "x">>, MCLLVMType(e))
             \o Joins("m3", <<"m", "m2">>, "ptr") \o CallsFun("h", <<"m3">>) \o RetPhi("m4", "m3")
             \o Folds("r", "m4", <<>>, <<"zero", "m4">>, "f")),
      <<"h", <<"a">>, <<"ptr">>,
        Asserts("a", MapOf(k, e)) \o Writes("a1", "a", <<-1>>, e)>>,
      <<"f", <<"acc", "key", "elem", "c">>, <<"32 bits", LowKey(k), MCLLVMType(e), "ptr">>,
        Asserts("c", MapOf(k, e)) \o ReadOf("v", "c", <<-1>>, e) \o Joins("j", <<"key", "key">>, LowKey(k))>>
    >>, {}, {<<"f", 2>>} \cup (IF w THEN {<<"f", 3>>} ELSE {}),
    {<<<<"main", 1>>, <<>> >>} \cup (IF w THEN {<<<<"main", 1>>, <<-1>> >>} ELSE {}))

(* A body that allocates a set of its own and folds over it.               *)
InBody(k) ==
  Mutation(
    <<MainOf(Makes("m", SetOf(k)) \o Makes("o", ListOf(k)) \o Folds("r", "m", <<>>, <<"o">>, "f")
             \o ReadOf("q", "r", <<-1>>, k)),
      <<"f", <<"acc", "key">>, <<"ptr", LowKey(k)>>,
        Asserts("acc", ListOf(k)) \o Makes("n", MapOf(k, Float)) \o Writes("n1", "n", <<-1>>, Float)
          \o Writes("o1", "acc", <<-1>>, k) \o Folds("t", "n1", <<>>, <<"o1">>, "g")>>,
      <<"g", <<"acc2", "key2", "elem2">>, <<"ptr", LowKey(k), "f32">>,
        Asserts("acc2", ListOf(k)) \o ReadOf("w", "acc2", <<-1>>, k) \o Copies("cc", "acc2")>>
    >>, {"f"}, {<<"f", 2>>, <<"g", 2>>},
    {<<<<"main", 1>>, <<>> >>, <<<<"main", 2>>, <<-1>> >>, <<<<"f", 2>>, <<>> >>})

(* Maps in a map: folded over where they are, or as elements.              *)
InMap(k, path, inner) ==
  Mutation(
    <<MainOf(Makes("m", MapOf(k, inner)) \o Folds("r", "m", path, <<"zero">>, "f")),
      IF path # <<>> THEN <<"f", <<"acc", "key", "elem">>, <<"32 bits", LowKey(k), MCLLVMType(inner.elem)>>, <<>> >>
      ELSE <<"f", <<"acc", "key", "elem">>, <<"32 bits", LowKey(k), "ptr">>,
             Asserts("elem", inner) \o ReadOf("x", "elem", <<-1>>, inner.elem)
               \o Folds("s", "elem", <<>>, <<"acc">>, "g")>>,
      <<"g", <<"acc2", "key2", "elem2">>, <<"32 bits", LowKey(k), MCLLVMType(inner.elem)>>, <<>> >>
    >>, {}, {<<"f", 2>>, <<"g", 2>>}, {<<<<"main", 1>>, <<>> >>, <<<<"main", 1>>, <<-1>> >>})

(* A map in a tuple, and in a sequence of tuples.                          *)
InTuple(k, within) ==
  LET t == StructOf(<<Float, MapOf(k, Float)>>)
      path == IF within THEN <<-1, 2>> ELSE <<2>>
  IN  Mutation(
        <<MainOf(Makes("m", IF within THEN ListOf(t) ELSE t) \o Writes("m1", "m", path \o <<-1>>, Float)
                 \o Folds("r", "m1", path, <<"zero">>, "f")),
          <<"f", <<"acc", "key">>, <<"32 bits", LowKey(k)>>, Joins("j", <<"key", "key">>, LowKey(k))>>
        >>, {"f"}, {<<"f", 2>>}, {<<<<"main", 1>>, path>>})

MCMutations ==
  UNION {{PlainMap(k, Float, FALSE), PlainMap(k, k, TRUE), InBody(k), InTuple(k, FALSE), InTuple(k, TRUE),
          InMap(k, <<-1>>, MapOf(k, Float)), InMap(k, <<>>, MapOf(k, Float)), InMap(k, <<>>, MapOf(k, MapOf(k, Float)))} :
           k \in {Prim("i64"), Prim("u32")}}

-----------------------------------------------------------------------------
(* Functions for BoundsChecks.                                             *)

NoVersion == "absent"

Ver(op, d, o, k) == <<[op |-> op, def |-> d, obj |-> o, key |-> k]>>
Fresh(d) == Ver("alloc", d, NoVersion, 0)
PhiOf(d, from) == [def |-> d, from |-> from]

Checked(succ, has, phis, code) ==
  [args |-> <<"arg">>, succ |-> succ, has |-> has, phis |-> phis, code |-> code]

AnyChange(d, o) == {Ver("insert", d, o, 1), Ver("insert", d, o, 2), Ver("remove", d, o, 1)}
Others(d, o) == {Ver(op, d, o, 0) : op \in {"write", "clear", "fold", "retphi", "copy"}}
AnyUse(d, o) == AnyChange(d, o) \cup Others(d, o)

(* One version after another.                                              *)
Chains ==
  {Checked(<< <<>> >>, << <<>> >>, << <<>> >>, <<Fresh("a") \o x \o y \o z>>) :
     x \in AnyChange("u", "a") \cup {Ver("insert", "u", "arg", 1)}, y \in AnyUse("v", "u"),
     z \in {Ver("insert", "w", "v", 1), Ver("remove", "w", "v", 2)}}

(* A branch on whether an argument or a new version has the first key.     *)
Sources == {<<"arg", <<>> >>, <<"s", Fresh("a") \o Ver("insert", "s", "a", 2)>>}

Branches ==
  UNION {
  {Checked(<< <<2, 3>>, <<4>>, <<4>>, <<>> >>, << <<s[1], 1>>, <<>>, <<>>, <<>> >>,
           << <<>>, <<PhiOf("t", 1 :> s[1])>>, <<>>, <<PhiOf("p", 2 :> v @@ 3 :> w)>> >>,
           << s[2], x, y, z>>) :
     x \in AnyUse("u", "t"), v \in {"u", "t"}, w \in {"w", s[1]},
     y \in {Ver("insert", "w", s[1], 1), Ver("remove", "w", s[1], 1), Ver("copy", "w", s[1], 0)},
     z \in {Ver("write", "q", "p", 0)}} : s \in Sources}

(* A loop that changes the version it carries.                             *)
Loops ==
  {Checked(<< <<2>>, <<3, 4>>, <<2>>, <<>> >>, << <<>>, <<>>, <<>>, <<>> >>,
           << <<>>, <<PhiOf("p", 1 :> "u" @@ 3 :> w)>>, <<>>, <<>> >>,
           << Fresh("a") \o x, y, z, <<>> >>) :
     x \in {Ver("insert", "u", "a", 1), Ver("remove", "u", "a", 1)}, y \in AnyUse("v", "p"),
     z \in {Ver("remove", "w", "v", 1), Ver("write", "w", "v", 0)}, w \in {"v", "w"}}

MCCheckedFunctions == Chains \cup Branches \cup Loops

-----------------------------------------------------------------------------
(* Types of which there is one each, and those of fields.                  *)

TheType(k, w) == [kind |-> k, parts |-> <<>>, sel |-> w]

MCPrimitives == <<TheType("u", 8), TheType("i", 2), TheType("ptr", "none")>>
MCFieldTypes ==
  {TheType("boolean", 1), TheType("u", 2), TheType("u", 8), TheType("u", 64), TheType("ptr", "none")}

-----------------------------------------------------------------------------
(* Modules with temporary arguments.                                       *)

Instr(op, g, fn, v, args) == <<[op |-> op, glob |-> g, fn |-> fn, val |-> v, args |-> args]>>
TempLoad(g) == Instr("temp", g, Nil, Nil, <<>>)
Stored(g, v) == Instr("store", g, Nil, v, <<>>)
Called(fn) == Instr("call", Nil, fn, Nil, <<"own">>) \o Instr("retphi", Nil, fn, Nil, <<>>)
Folded(fn, args) == Instr("fold", Nil, fn, Nil, <<"obj">> \o args) \o Instr("retphi", Nil, fn, Nil, <<>>)
NextBlock == Instr("br", Nil, Nil, Nil, <<>>)

Body(formals, code) == [formals |-> formals, code |-> code \o Instr("ret", Nil, Nil, Nil, <<>>)]
MainBody(code) == Body(<<>>, code)
Sub(code) == Body(<<"a">>, code)

(* One function, called and folded with, with and without stores.          *)
OneSub ==
  {[main |-> MainBody(s \o c \o n), f |-> Sub(TempLoad("t") \o x)] :
     s \in {Stored("t", "v1"), Stored("t", "v1") \o Stored("u", "v2"), Stored("u", "v2") \o Stored("t", "v1"),
           Stored("t", "v1") \o NextBlock \o Stored("t", "v2"), <<>>},
     c \in {Called("f"), Folded("f", <<>>), Folded("f", <<"closed">>)},
     n \in {Stored("t", "v3") \o Called("f"), Stored("t", "v3") \o Stored("u", "v4") \o Folded("f", <<>>), <<>>},
     x \in {<<>>, TempLoad("u"), TempLoad("t")}}

(* One that calls itself, or is the body of a fold in itself.              *)
Recursive ==
  {[main |-> MainBody(k \o Stored("t", "v1") \o Called("f") \o m), f |-> Sub(TempLoad("t") \o NextBlock \o x)] :
     k \in {<<>>, TempLoad("x")}, m \in {<<>>, Stored("t", "v2") \o Folded("f", <<>>)},
     x \in {Stored("t", v) \o c : v \in {"t", "v5"}, c \in {Called("f"), Folded("f", <<>>)}} \cup {Called("f")}}

(* Two, that hand on what they were handed, to each other too.             *)
TwoSubs ==
  {[main |-> MainBody(m), f |-> Sub(TempLoad("t") \o x), g |-> Sub(TempLoad("v") \o TempLoad("w") \o y)] :
     m \in {Stored("t", "v1") \o Called("f"), Stored("w", "v1") \o Stored("v", "v2") \o Called("g"),
           Stored("w", "v1") \o Called("g")},
     x \in {NextBlock \o Stored("v", "t") \o Stored("w", "v6") \o Called("g"), <<>>},
     y \in {<<>>, NextBlock \o Stored("t", "v") \o Folded("f", <<>>), NextBlock \o Stored("t", "w") \o Called("f")}}

MCReified == OneSub \cup Recursive \cup TwoSubs

-----------------------------------------------------------------------------
(* Calls that are written, by the macros or by the builder.                *)

Vl(n) == <<"val", n>>
U32 == <<"u", 32>>
U64 == <<"u", 64>>
U2 == <<"u", 2>>
SeqOf(t) == <<"seq", t, "">>
MapTo(k, t) == <<"assoc", k, t, "">>
FieldsOf == <<"tuple", <<U32, SeqOf(<<"ref", SeqOf(U32)>>), MapTo(U32, U2)>> >>

(* A sequence, a map to sequences, a set and a tuple.                      *)
MCTypeOfObject ==
  "s" :> SeqOf(U32) @@ "m" :> MapTo(U64, SeqOf(U32)) @@ "b" :> <<"assoc", U64, <<"void">>, "s1">> @@ "t" :> FieldsOf

Call(via, macro, obj, at_) ==
  [via |-> via, macro |-> macro, ty |-> <<>>, obj |-> obj, at |-> at_, val |-> <<>>, range |-> <<>>,
   input |-> <<>>, closed |-> <<>>, reverse |-> "", type |-> <<>>, selection |-> ""]

Nowhere == <<Vl("s"), <<>> >>
InSeq == <<Vl("s"), <<Vl("i")>> >>
InTheMap == <<Vl("m"), <<Vl("k")>> >>
InInner == <<Vl("m"), <<Vl("k"), Vl("i")>> >>
InSet == <<Vl("b"), <<Vl("k")>> >>
Field(n, more) == <<Vl("t"), << <<"const", n>> >> \o more>>
Via == {"c", "builder"}

(* Each place, with the type of what is there and the function for it.     *)
Elements ==
  {<<InSeq, U32, U32>>, <<InInner, U32, U32>>, <<Field(1, <<>>), U32, U32>>, <<Field(3, <<Vl("k")>>), U2, U2>>,
   <<Field(2, <<Vl("i")>>), <<"ref", SeqOf(U32)>>, <<"ref">> >>}

PlainCalls ==
  {Call(v, x, w[1], w[2]) : v \in Via, x \in {"get", "size", "has", "clear", "insert", "remove"},
     w \in {Nowhere, InSeq, InTheMap, InInner, InSet, Field(1, <<>>), Field(2, <<Vl("i")>>)}}

ElementCalls ==
  {[Call(v, x, e[1][1], e[1][2]) EXCEPT !.ty = e[3], !.type = e[2], !.val = IF x = "write" THEN Vl("x") ELSE <<>>] :
     v \in Via, x \in {"read", "write"}, e \in Elements}

UpdateCalls ==
  {[Call("c", x, w[1], w[2]) EXCEPT !.val = Vl("x")] :
     x \in {"insert_value", "push_back"}, w \in {Nowhere, InSeq, InTheMap, InInner}} \cup
  {[Call("c", "insert_range", Vl("m"), <<Vl("k"), Vl("i")>>) EXCEPT !.input = i, !.range = r] :
     i \in {<<Vl("s")>>, <<Vl("m"), Vl("l")>>}, r \in {<<>>, <<Vl("x"), Vl("y")>>}} \cup
  {[Call("c", x, Vl("m"), <<Vl("k")>>) EXCEPT !.range = r] :
     x \in {"remove", "copy"}, r \in {<<>>, <<Vl("x"), Vl("y")>>}} \cup
  {Call("c", "pop_back", Vl("m"), <<Vl("k")>>)}

FoldCalls ==
  {[Call(v, "fold", w[1], w[2]) EXCEPT !.ty = U32, !.type = U32, !.val = Vl("zero"), !.closed = c, !.reverse = r] :
     v \in Via, w \in {Nowhere, InTheMap, <<Vl("m"), <<>> >>, <<Vl("b"), <<>> >>, Field(2, <<>>)},
     c \in {<<>>, <<Vl("x")>>, <<Vl("x"), Vl("s"), Vl("y")>>}, r \in {"", "rfold", "before", "after"}}

AllocCalls ==
  {[Call(v, "allocate", <<"none">>, n) EXCEPT !.type = t, !.selection = s] :
     v \in Via, n \in {<<>>, <<Vl("n")>>}, s \in {"", "sel"},
     t \in {MCTypeOfObject[o] : o \in DOMAIN MCTypeOfObject} \cup {SeqOf(<<"array", U32, 3>>)}}

(* The builder has no keywords but "closed".                               *)
MCCalls ==
  {c \in PlainCalls \cup ElementCalls \cup UpdateCalls \cup FoldCalls \cup AllocCalls :
     c.via = "builder" => c.reverse = "" /\ (c.macro = "allocate" => c.selection = "")}

-----------------------------------------------------------------------------
(* The composition.                                                        *)

VARIABLES
  chosen,
  tcGraph, tcStack, tcBound, tcVars, tcRet, tcStatus,
  mtProgram, mtCurrent, mtTyped, mtParam, mtWanted, mtHandle, mtPending, mtToClone, mtStatus,
  bcFn, bcResult, bcWorklist, bcTodo, bcTaken, bcLate, bcPhase, bcHere, bcKeyval, bcHolds, bcFuel,
  tyMade, tyTuples, tyArrays, tyTable, tyAnswer, tyFields, tyWidths, tyOffsets, tyRanges, tyElements,
  tyPhase,
  rtP, rtList, rtAddresses, rtFns, rtHandled, rtStatus, rtGlobals, rtFrames, rtFound,
  opCall, opInst, opPlace, opWrappers, opPhase, opAdded

Check == INSTANCE TypeCheck WITH
  g <- tcGraph, stack <- tcStack, bound <- tcBound, vars <- tcVars, ret <- tcRet, status <- tcStatus

ASSUME DeadFunctionsAreWhole == FunctionsAreWhole

ASSUME CoercedAccessesAreTyped == AccessesAreTyped

Mutating == INSTANCE MutateType WITH
  LLVMType <- LLVMOf, Null <- NullType,
  p <- mtProgram, current <- mtCurrent, typed <- mtTyped, param <- mtParam, wanted <- mtWanted,
  handle <- mtHandle, pending <- mtPending, toClone <- mtToClone, status <- mtStatus

Bounds == INSTANCE BoundsChecks WITH
  fn <- bcFn, result <- bcResult, worklist <- bcWorklist, todo <- bcTodo, taken <- bcTaken,
  late <- bcLate, phase <- bcPhase, here <- bcHere, keyval <- bcKeyval, holds <- bcHolds, fuel <- bcFuel

Tables == INSTANCE Types WITH
  Selections <- SelectionNames, NoSelection <- NoName,
  made <- tyMade, tuple_types <- tyTuples, array_types <- tyArrays, table <- tyTable, answer <- tyAnswer,
  fields <- tyFields, widths <- tyWidths, offsets <- tyOffsets, ranges <- tyRanges,
  elements <- tyElements, phase <- tyPhase

Reifying == INSTANCE ReifyTempArgs WITH
  Modules <- ReifiedModules, Closed <- ClosedKeyword,
  p <- rtP, list <- rtList, addresses <- rtAddresses, fns <- rtFns, handled <- rtHandled,
  status <- rtStatus, globals <- rtGlobals, frames <- rtFrames, found <- rtFound

Wrapped == INSTANCE Operands WITH
  call <- opCall, inst <- opInst, place <- opPlace, wrappers <- opWrappers, phase <- opPhase,
  added <- opAdded

flowVars == <<vars, outVars>>

tcAll == <<tcGraph, tcStack, tcBound, tcVars, tcRet, tcStatus>>

all == <<chosen, flowVars, tcAll, inferVars, coerceVars, dceVars>>

mtAll == <<mtProgram, mtCurrent, mtTyped, mtParam, mtWanted, mtHandle, mtPending, mtToClone, mtStatus>>

bcAll ==
  <<bcFn, bcResult, bcWorklist, bcTodo, bcTaken, bcLate, bcPhase, bcHere, bcKeyval, bcHolds, bcFuel>>

tyAll ==
  <<tyMade, tyTuples, tyArrays, tyTable, tyAnswer, tyFields, tyWidths, tyOffsets, tyRanges, tyElements,
    tyPhase>>

rtAll == <<rtP, rtList, rtAddresses, rtFns, rtHandled, rtStatus, rtGlobals, rtFrames, rtFound>>

opAll == <<opCall, opInst, opPlace, opWrappers, opPhase, opAdded>>

utilities == <<all, mtAll, bcAll, tyAll, rtAll, opAll>>

(* What was not chosen is idle, in a state of no meaning.                  *)
IdleFlow ==
  /\ f = <<>> /\ at = <<>> /\ env = <<>> /\ mem = <<>>
  /\ steps = <<>> /\ stale = <<>>

IdleLinearity ==
  /\ liveIn = <<>> /\ liveOut = <<>> /\ verdict = "idle" /\ missed = <<>>

IdleOut ==
  /\ todo = <<>> /\ liveOuts = <<>> /\ phase = "idle"

IdleTypes ==
  /\ tcGraph = <<>> /\ tcStack = <<>> /\ tcBound = <<>> /\ tcVars = <<>>
  /\ tcRet = <<>> /\ tcStatus = <<>>

IdleInference ==
  /\ program = [order |-> <<>>, args |-> <<>>, types |-> <<>>, calls |-> <<>>, fold |-> <<>>]
  /\ asserted = <<>> /\ inferred = <<>> /\ inferring = <<>>
  /\ nextFun = 1 /\ runs = 0 /\ outcome = "idle"

IdleCoercion ==
  /\ access = <<>> /\ indices = <<>> /\ written = <<>> /\ object = <<>>
  /\ position = 1 /\ failed = FALSE

IdleDead ==
  /\ insts = <<>> /\ alive = {} /\ operands = <<>> /\ line = 1

IdleAnalyses ==
  /\ IdleFlow /\ IdleLinearity /\ IdleOut /\ IdleTypes /\ IdleInference /\ IdleCoercion /\ IdleDead

IdleMutation ==
  /\ mtProgram = <<>> /\ mtCurrent = <<>> /\ mtTyped = <<>> /\ mtParam = <<>> /\ mtWanted = <<>>
  /\ mtHandle = <<>> /\ mtPending = <<>> /\ mtToClone = <<>> /\ mtStatus = <<>>

IdleBounds ==
  /\ bcFn = <<>> /\ bcResult = <<>> /\ bcWorklist = <<>> /\ bcTodo = <<>> /\ bcTaken = <<>>
  /\ bcLate = <<>> /\ bcPhase = <<>> /\ bcHere = <<>> /\ bcKeyval = <<>> /\ bcHolds = <<>> /\ bcFuel = <<>>

IdleTables ==
  /\ tyMade = <<>> /\ tyTuples = <<>> /\ tyArrays = <<>> /\ tyTable = <<>> /\ tyAnswer = <<>>
  /\ tyFields = <<>> /\ tyWidths = <<>> /\ tyOffsets = <<>> /\ tyRanges = <<>>
  /\ tyElements = <<>> /\ tyPhase = <<>>

IdleReifying ==
  /\ rtP = <<>> /\ rtList = <<>> /\ rtAddresses = <<>> /\ rtFns = <<>> /\ rtHandled = <<>>
  /\ rtStatus = <<>> /\ rtGlobals = <<>> /\ rtFrames = <<>> /\ rtFound = <<>>

IdleOperands ==
  /\ opCall = <<>> /\ opInst = <<>> /\ opPlace = <<>> /\ opWrappers = <<>>
  /\ opPhase = <<>> /\ opAdded = <<>>

IdleUtilities == IdleMutation /\ IdleBounds /\ IdleTables /\ IdleReifying

AInit ==
  \/ /\ chosen = "linearity" /\ Init
     /\ IdleOut /\ IdleTypes /\ IdleInference /\ IdleCoercion /\ IdleDead
  \/ /\ chosen = "live-outs" /\ LOInit
     /\ IdleLinearity /\ IdleTypes /\ IdleInference /\ IdleCoercion /\ IdleDead
  \/ /\ chosen = "types" /\ Check!Init
     /\ IdleFlow /\ IdleLinearity /\ IdleOut /\ IdleInference /\ IdleCoercion /\ IdleDead
  \/ /\ chosen = "inference" /\ TIInit
     /\ IdleFlow /\ IdleLinearity /\ IdleOut /\ IdleTypes /\ IdleCoercion /\ IdleDead
  \/ /\ chosen = "coercion" /\ CoInit
     /\ IdleFlow /\ IdleLinearity /\ IdleOut /\ IdleTypes /\ IdleInference /\ IdleDead
  \/ /\ chosen = "dead code" /\ DCInit
     /\ IdleFlow /\ IdleLinearity /\ IdleOut /\ IdleTypes /\ IdleInference /\ IdleCoercion

ANext ==
  /\ UNCHANGED chosen
  /\ \/ chosen = "linearity" /\ Next /\ UNCHANGED <<outVars, tcAll, inferVars, coerceVars, dceVars>>
     \/ chosen = "live-outs" /\ LONext
          /\ UNCHANGED <<liveVars, verdict, missed, tcAll, inferVars, coerceVars, dceVars>>
     \/ chosen = "types" /\ Check!Next /\ UNCHANGED <<flowVars, inferVars, coerceVars, dceVars>>
     \/ chosen = "inference" /\ TINext /\ UNCHANGED <<flowVars, tcAll, coerceVars, dceVars>>
     \/ chosen = "coercion" /\ CoNext /\ UNCHANGED <<flowVars, tcAll, inferVars, dceVars>>
     \/ chosen = "dead code" /\ DCNext /\ UNCHANGED <<flowVars, tcAll, inferVars, coerceVars>>

UInit ==
  \/ AInit /\ IdleUtilities /\ IdleOperands
  \/ /\ IdleAnalyses /\ IdleOperands
     /\ \/ chosen = "mutation" /\ Mutating!Init /\ IdleBounds /\ IdleTables /\ IdleReifying
        \/ chosen = "bounds" /\ Bounds!Init /\ IdleMutation /\ IdleTables /\ IdleReifying
        \/ chosen = "tables" /\ Tables!TypesInit /\ IdleMutation /\ IdleBounds /\ IdleReifying
        \/ chosen = "reify" /\ Reifying!Init /\ IdleMutation /\ IdleBounds /\ IdleTables
  \/ chosen = "operands" /\ Wrapped!OperandsInit /\ IdleAnalyses /\ IdleUtilities

CheckBounds == chosen = "bounds" /\ Bounds!BCNext

UNext ==
  \/ ANext /\ UNCHANGED <<mtAll, bcAll, tyAll, rtAll, opAll>>
  \/ chosen = "mutation" /\ Mutating!MTNext /\ UNCHANGED <<all, bcAll, tyAll, rtAll, opAll>>
  \/ CheckBounds /\ UNCHANGED <<all, mtAll, tyAll, rtAll, opAll>>
  \/ chosen = "tables" /\ Tables!TypesNext /\ UNCHANGED <<all, mtAll, bcAll, rtAll, opAll>>
  \/ chosen = "reify" /\ Reifying!RTNext /\ UNCHANGED <<all, mtAll, bcAll, tyAll, opAll>>
  \/ chosen = "operands" /\ Wrapped!OperandsNext /\ UNCHANGED <<all, mtAll, bcAll, tyAll, rtAll>>

(* What an analysis does until it ends, and not the execution after it.    *)
Analyze ==
  /\ \/ chosen = "linearity" /\ verdict = "pending"
     \/ chosen = "types" /\ tcStatus = "running"
     \/ chosen = "inference" /\ outcome = "running"
  /\ ANext

Propagate == bcPhase = "analyze" /\ CheckBounds

USpec == UInit /\ [][UNext]_utilities /\ WF_all(Analyze) /\ WF_bcAll(Propagate)

-----------------------------------------------------------------------------
(* The properties, under names of their own; each is stated and explained  *)
(* in the module of the analysis.  LivenessIsExact, InPlaceIsSafe,         *)
(* CallersFindLatest, DemandedIsKept, OuterIndicesAreCoerced and           *)
(* InferredFromCallers are Liveness's, LiveOutInsertion's, DeadCode's,     *)
(* Coerce's and TypeInference's: they ask nothing of what is idle.         *)

(* What is live on an edge is live after the block that it leaves.         *)
LiveOutOfBlocks == chosen = "linearity" => EdgesLeaveOut

(* A type found comes along definitions, the one type that comes to a      *)
(* value is found, types that meet are compared, and type_of ends through  *)
(* any cycle of PHIs.                                                      *)
TypesAreExact ==
  chosen = "types" =>
    /\ Check!FindsAReachingType /\ Check!TypesAreFound /\ Check!ConflictsAreFound
    /\ Check!EndlessOnlyInLoads

(* Objects with a collection's type can be indexed.                        *)
CollectionsAreIndexed == chosen = "types" => Check!ObjectsAreNotRefused

(* What has one type has it after the pipeline.                            *)
EverythingIsAnnotated == chosen = "inference" => AllAreAnnotated

(* In the end allocations have the types that enumeration wants, and what  *)
(* works on them agrees; a function finds in its parameters what it found  *)
(* in globals.                                                             *)
RewritesAreFaithful ==
  /\ chosen = "mutation" => Mutating!MutatedTypesAgree
  /\ chosen = "reify" => Reifying!ArgumentsAreHandedDown

(* Keys that a version is known to have are there.                         *)
KnownKeysAreThere == chosen = "bounds" => Bounds!KnownKeysAreThere

(* There is one object for each type, a code is that of one type, the      *)
(* fields of a tuple do not overlap; and the types and operands of calls   *)
(* are read as they were written, however they were rebuilt.               *)
TypesHold ==
  /\ chosen = "tables" => Tables!TypesAreUnique /\ Tables!CodesAreRead /\ Tables!SelectionsAreIgnored /\ Tables!LayoutHolds
  /\ chosen = "operands" =>
       /\ Wrapped!OperandsAreRead /\ Wrapped!BodiesAreGivenWhatTheyTake
       /\ Wrapped!ElementsAreKnown

(* What runs ends: the fixpoint of liveness is reached, type_of and type   *)
(* inference come back or run into a circle, and so does the propagation   *)
(* of bounds checks.  That there is a circle wherever the bound of a stack *)
(* was reached is part of TypesAreExact and InferredFromCallers.           *)
EverythingEnds ==
  <>(/\ chosen = "linearity" => verdict # "pending"
     /\ chosen = "types" => tcStatus # "running"
     /\ chosen = "inference" => outcome # "running"
     /\ chosen = "bounds" => bcPhase # "analyze")
=============================================================================
