-------------------------- MODULE MCTransformations -------------------------
(***************************************************************************)
(* What the compiler does to accesses, for the model checker: data         *)
(* enumeration, which changes their indices (within functions, across      *)
(* calls, or the promotion of the globals that hold the mappings),         *)
(* lowering, which makes calls of them, or linking, which has what they    *)
(* call compiled; the one that runs is chosen first.  Before them come the *)
(* programs, inputs and types that they are checked on.                    *)
(***************************************************************************)
EXTENDS Enumeration, PromoteGlobals

CONSTANTS
  Components,     (* those of the transformations that a run chooses from *)
  CallPrograms, MaxDepth,
  Typings, Vals, Zero, Undef, End, EndOps, CopyNested, MaxSize(_), MaxLen(_), KeyNames(_),
  Modules, Registered, DefaultOf,
  k1, k2, NoSelection

-----------------------------------------------------------------------------
(* Functions.                                                              *)

I(op, def, obj, index, val) == [op |-> op, def |-> def, obj |-> obj, index |-> index, val |-> val]
SetOf(d) == I("alloc", d, Null, <<"K">>, "none")
MapOf(d) == I("alloc", d, Null, <<"K">>, "K")
SetsOf(d) == I("alloc", d, Null, <<"K", "K">>, "none")
IntMapOf(d) == I("alloc", d, Null, <<"int">>, "K")
Insert(d, c, path) == I("insert", d, c, path, Null)
Put(d, c, path, v) == I("insert", d, c, path, v)
Write(d, c, path, v) == I("write", d, c, path, v)
Delete(d, c, path) == I("remove", d, c, path, Null)
Read(d, c, path) == I("read", d, c, path, Null)
HasKey(d, c, path) == I("has", d, c, path, Null)
FoldOver(F, c, path, init) == I("fold", F, c, path, init)
RetPhiOf(d, v, F) == I("retphi", d, v, <<>>, F)
CopyOf(d, c) == I("copy", d, c, <<>>, Null)
Union(d, c, e) == I("union", d, c, <<>>, e)
Select(d, v, w) == I("join", d, Null, <<v, w>>, "select")
Merge(d, v, w) == I("join", d, Null, <<v, w>>, "phi")
Equal(d, v, w) == I("eq", d, Null, <<v, w>>, Null)
Out(v) == I("out", Null, Null, <<v>>, Null)
Ret(v) == I("ret", Null, Null, <<v>>, Null)

Straight(code) == [code |-> "main" :> code, fold |-> <<>>, bags |-> {}]
BodyOf(acc, key, elem, closed, passed, last) ==
  [acc |-> acc, key |-> key, elem |-> elem, closed |-> closed, passed |-> passed, last |-> last]
WithFold(code, body, f, bags) == [code |-> "main" :> code @@ "F" :> body, fold |-> "F" :> f, bags |-> bags]
Plain(acc) == BodyOf(acc, "k", Null, <<>>, <<>>, <<>>)

(* A set and a map whose elements are keys, in one class, in two or alone. *)
SetAndMap ==
  {Straight(<<SetOf("s"), MapOf("m"), Insert("s1", "s", <<"a">>), Put("m1", "m", <<"a">>, "b"), x,
              HasKey("h", "s1", <<"r">>), Equal("e", "r", y), Out("h"), Out("e"), Out("r"), Ret("a")>>) :
     x \in {Read("r", "m1", <<"a">>), Merge("r", "a", "b"), Select("r", "a", "b")}, y \in {"a", "b"}}

(* Elements of a map that are looked up in it: a chain of parents.         *)
Chain ==
  {Straight(<<MapOf("m"), Put("m1", "m", <<"a">>, "b"), Put("m2", "m1", <<"b">>, "b"),
              Read("r", "m2", <<"a">>), x, Write("m3", "m2", <<"r">>, "q"), Read("z", "m3", <<"b">>),
              Equal("e", "r", "z"), Out("e"), Out("z"), Delete("m4", "m3", <<y>>),
              HasKey("h", "m4", <<"a">>), Out("h"), Ret("a")>>) :
     x \in {Read("q", "m2", <<"r">>), Merge("q", "r", "a"), Select("q", "a", "r")}, y \in {"r", "z", "a"}}

(* Keys carried by a fold: found in a map, given from outside, or mixed.   *)
KeyCarried ==
  {WithFold(<<MapOf("m"), Put("m1", "m", <<"a">>, "b"), Put("m2", "m1", <<"b">>, "a"),
              Read("r", "m2", <<"a">>), FoldOver("F", "m2", <<>>, i), HasKey("h", "m2", <<"F">>),
              Out("h"), Out("F"), Ret("a")>>,
            <<j, Ret(x)>>, Plain("acc"), {}) :
     i \in {"a", "r"}, j \in {Select("n", "acc", "k"), Merge("n", "k", "acc"), Merge("n", "k", "k")},
     x \in {"acc", "k", "n"}}

(* The keys of a set gathered in another, which is the accumulator or a    *)
(* collection the body closes on.                                          *)
Copied ==
  {WithFold(<<SetOf("s"), Insert("s1", "s", <<"a">>), Insert("s2", "s1", <<"b">>), SetOf("t"),
              FoldOver("F", "s2", <<>>, "t"), HasKey("h", "F", <<"a">>), Out("h"), Ret("a")>>,
            <<Insert("u", "acc", <<"k">>), Ret(x)>>, Plain("acc"), {"acc", "F"}) : x \in {"acc", "u"}}
  \cup
  {WithFold(<<SetOf("s"), Insert("s1", "s", <<"a">>), Insert("s2", "s1", <<"b">>), SetOf("t"),
              FoldOver("F", o, <<>>, "a"), RetPhiOf("t1", "t", "F"), HasKey("h", "t1", <<"b">>),
              Out("h"), Out("F"), Ret("a")>>,
            <<Insert("u", "c", <<x>>), Ret("acc")>>,
            BodyOf("acc", "k", Null, <<"c", "d">>, <<"t", "a">>, <<"u", "d">>), {"c"}) :
     x \in {"k", "d"}, o \in {"s", "s2"}}

(* A set made anew by each iteration.                                      *)
MadeInBody ==
  {WithFold(<<SetOf("s"), Insert("s1", "s", <<"a">>), Insert("s2", "s1", <<"b">>),
              FoldOver("F", "s2", <<>>, "a"), Out("F"), Ret("a")>>,
            <<SetOf("t"), Insert("t1", "t", <<x>>), HasKey("h", "t1", <<"acc">>), Out("h"), Ret("k")>>,
            Plain("acc"), {}) : x \in {"k", "acc"}}

(* Sets in a set: the inner ones are the elements of the fold.             *)
Nested ==
  {WithFold(<<SetsOf("s"), Insert("s1", "s", <<"a">>), Insert("s2", "s1", <<"a", "b">>),
              Insert("s3", "s2", <<"b">>), HasKey("g", "s3", <<"a", y>>), Out("g"),
              FoldOver("F", "s3", x, "b"), Out("F"), Ret("a")>>,
            body, BodyOf("acc", "k", l, <<>>, <<>>, <<>>), {l} \ {Null}) :
     x \in {<<>>}, y \in {"a", "b"}, l \in {"l"},
     body \in {<<HasKey("h", "l", <<"acc">>), Out("h"), Ret("k")>>,
               <<HasKey("h", "l", <<"k">>), Out("h"), Ret("acc")>>}}
  \cup
  {WithFold(<<SetsOf("s"), Insert("s1", "s", <<"a">>), Insert("s2", "s1", <<"a", "b">>),
              FoldOver("F", "s2", <<"a">>, "b"), Out("F"), Delete("s3", "s2", <<"a", "F">>),
              HasKey("g", "s3", <<"a", "a">>), Out("g"), Ret("a")>>,
            <<Out("k"), Equal("e", "k", "acc"), Out("e"), Ret("k")>>, Plain("acc"), {})}

(* Keys in a sequence, and collections that meet.                          *)
Meeting ==
  {[Straight(<<SetOf("s"), SetOf("t"), Insert("s1", "s", <<"a">>), Insert("t1", "t", <<"b">>), x,
              HasKey("h", "u", <<"a">>), Out("h"), HasKey("g", "s1", <<"b">>), Out("g"), Ret("a")>>)
      EXCEPT !.bags = {"u"}] :
     x \in {Merge("u", "s1", "t1"), Union("u", "s1", "t1"), CopyOf("u", "s1")}}

(* An iteration that returns early.                                        *)
Early ==
  {WithFold(<<SetOf("s"), Insert("s1", "s", <<"a">>), Insert("s2", "s1", <<"b">>),
              FoldOver("F", "s2", <<>>, "b"), HasKey("h", "s2", <<"F">>), Out("h"), Out("F"), Ret("a")>>,
            <<Ret("k"), Out("acc"), Ret(x)>>, Plain("acc"), {}) : x \in {"b", "k", "acc"}}

(* Keys that are elements of a sequence, whose indices are none.           *)
Elements ==
  {WithFold(<<SetOf("s"), Insert("s1", "s", <<"a">>), IntMapOf("v"), Put("v1", "v", <<"b">>, "a"),
              Put("v2", "v1", <<"a">>, x), FoldOver("F", "v2", <<>>, "b"), Out("F"), Ret("a")>>,
            <<HasKey("h", "c", <<"l">>), Out("h"), Ret(y)>>,
            BodyOf("acc", "k", "l", <<"c">>, <<"s1">>, <<"c">>), {"c"}) : x \in {"b"}, y \in {"k", "l"}}

(* A read and a remove of what may be absent.                              *)
Missing ==
  {Straight(<<SetOf("s"), MapOf("m"), Insert("s1", "s", <<"a">>), Put("m1", "m", <<"b">>, "a"), x, Ret("a")>>) :
     x \in {Read("r", "m1", <<"a">>), Delete("s2", "s1", <<"b">>), Delete("m2", "m1", <<"b">>)}}

(* A fold within a body, of the keys or of the set that is the element.    *)
Within ==
  {[code |-> "main" :> <<SetsOf("s"), Insert("s1", "s", <<"a">>), Insert("s2", "s1", <<"a", "b">>),
                         Insert("s3", "s2", <<"b">>), FoldOver("F", "s3", <<>>, "b"), Out("F"), Ret("a")>>
             @@ "F" :> <<FoldOver("G", "l", <<>>, i), Ret(x)>>
             @@ "G" :> <<Out("acc2"), Ret(y)>>,
    fold |-> "F" :> BodyOf("acc", "k", "l", <<>>, <<>>, <<>>)
             @@ "G" :> BodyOf("acc2", "k2", Null, <<>>, <<>>, <<>>),
    bags |-> {"l"}] :
     i \in {"acc", "k"}, x \in {"G", "k"}, y \in {"acc2", "k2"}}

MCEnumPrograms == Elements \cup Missing \cup Within \cup SetAndMap \cup Chain \cup KeyCarried \cup Copied \cup MadeInBody \cup Nested \cup Meeting \cup Early

MCInputs == [{"a", "b"} -> Keys]

-----------------------------------------------------------------------------
(* Calls: main passes its sets s and t to g, twice or thrice, and g passes *)
(* what it is given, or its own set q, to h or to itself.                  *)
To(F, pass) == [to |-> F, pass |-> pass]
Objects == {"s", "t", "q", "a", "b", "x"}

MCCallPrograms ==
  {[params |-> "main" :> <<>> @@ "g" :> <<"a", "b">> @@ "h" :> <<"x">>,
    bases |-> "main" :> {"s", "t"} @@ "g" :> g[1] @@ "h" :> {},
    calls |-> "main" :> <<To("g", <<"s", y>>), To("g", <<"t", v>>)>> @@ "g" :> g[2] @@ "h" :> <<>>,
    uses |-> [o \in Objects |-> IF o \in used THEN {"encode", "decode"} ELSE {}]] :
     y \in {"s", "t"}, v \in {"s", Null},
     g \in {<<{}, <<>>>>, <<{}, <<To("h", <<"b">>), To("h", <<"a">>)>>>>,
            <<{"q"}, <<To("h", <<"q">>)>>>>, <<{"q"}, <<To("g", <<"b", "a">>)>>>>},
     used \in {Objects, {"a", "b"}}}

-----------------------------------------------------------------------------
(* Globals: main stores and calls; f, g and h store, load and call others, *)
(* or f folds g.                                                           *)
G(op, arg) == [op |-> op, arg |-> arg]
GLoad == <<G("load", Null)>>
GCalls(op, Fs) == {<<>>} \cup {<<G(op, F)>> : F \in Fs}
GRet == <<G("ret", Null)>>
GKeep == GLoad \o <<G("store", Same)>>

MCGlobalPrograms ==
  {[code |-> "main" :> <<G("store", 1), G("call", "f")>> \o GLoad \o <<G("call", "h")>> \o GRet
             @@ "f" :> before \o call \o after \o GRet
             @@ "g" :> inG \o next \o GRet
             @@ "h" :> inH \o (IF call = <<G("fold", "g")>> THEN <<>> ELSE last) \o GRet,
    visible |-> {"main"} \cup e[1], taken |-> e[2]] :
     before \in {<<>>, GLoad, <<G("store", 2)>> \o GLoad, GKeep}, after \in {<<>>, GLoad},
     inG \in {<<>>, GLoad, <<G("store", 2)>>}, inH \in {<<>>, GKeep},
     call \in GCalls("call", {"f", "g"}) \cup GCalls("fold", {"g"}),
     next \in GCalls("call", {"f", "h"}), last \in GCalls("call", {"g"}),
     e \in {<<{}, {}>>, <<{"h"}, {}>>, <<{}, {"h"}>>}}

-----------------------------------------------------------------------------
(* Nested objects: collections of collections, of tuples with collections  *)
(* in them, and tuples of them.                                            *)
V == <<"value">>
Seq1(t) == <<"seq", t>>
Assoc(t) == <<"assoc", t>>
Tuple(fields) == <<"tuple", [i \in 0 .. Len(fields) - 1 |-> fields[i + 1]]>>
Set == Assoc(<<"void">>)

(* With a second object, to copy to and from, or without.                  *)
MCTypings ==
  {[x |-> Seq1(Seq1(V))],
   [x |-> Seq1(Set)],
   [x |-> Assoc(Seq1(V))],
   [x |-> Assoc(Assoc(V))],
   [x |-> Seq1(V), y |-> Seq1(V)],
   [x |-> Assoc(Tuple(<<V, Seq1(V)>>)), y |-> Seq1(V)],
   [x |-> Seq1(Tuple(<<V, Set>>)), y |-> Set],
   [x |-> Tuple(<<V, Assoc(Set)>>), y |-> Set]}

MCMaxSize(types) == 1

MCMaxLen(types) == IF types \in {[x |-> Seq1(Set)], [x |-> Seq1(V), y |-> Seq1(V)]} THEN 2 ELSE 1

MCKeysOf(types) == IF types = [x |-> Assoc(Seq1(V))] THEN {k1, k2} ELSE {k1}

-----------------------------------------------------------------------------
(* Types to link: alone, or two that share some.                           *)
U8 == <<"int", 8>>
U64 == <<"int", 64>>
Boolean == <<"int", 1>>
Void == <<"void">>
SequenceOf(t) == <<"seq", t, NoSelection>>
MapTo(t) == <<"assoc", U64, t, NoSelection>>
SetOver(t) == <<"assoc", t, Void, NoSelection>>
Struct(fields) == <<"tuple", fields>>
As(selection, t) == [t EXCEPT ![Len(t)] = selection]

Pair == Struct(<<U8, Boolean>>)

Innermost == {U8, SequenceOf(U8), SetOver(U64), Pair, <<"ref", Pair>>}

(* Some with a selection: that fits, that does not, that is not known.     *)
Selected ==
  {As("bitset", SetOver(U8)), As("stl_vector", SequenceOf(U8)), As("bitmap", MapTo(SequenceOf(U8))),
   As("bitmap", SetOver(U8)), As("unknown", SequenceOf(U8))}

Middle ==
  (UNION {{SequenceOf(t), MapTo(t), Struct(<<U64, t>>)} : t \in Innermost}) \cup Selected

Outermost == UNION {{SequenceOf(t), MapTo(t), Struct(<<U8, t>>)} : t \in Middle}

Others ==
  {SequenceOf(Struct(<<U64, SequenceOf(U8)>>)), Struct(<<SequenceOf(Pair), Pair>>), MapTo(SequenceOf(U8))}

MCModules == {<<t>> : t \in Middle \cup Outermost} \cup {<<t, u>> : t \in Middle, u \in Others}

MCRegistered ==
  [impl \in {"stl_vector", "stl_unordered_map", "stl_unordered_set", "bitset", "bitmap"} |->
     CASE impl = "stl_vector" -> "seq"
       [] impl \in {"stl_unordered_set", "bitset"} -> "set"
       [] OTHER -> "map"]

MCDefaultOf == [seq |-> "stl_vector", map |-> "stl_unordered_map", set |-> "stl_unordered_set"]

-----------------------------------------------------------------------------
(* The composition.                                                        *)

VARIABLES
  chosen,
  clProgram, clIncoming, clRoot, clSize, clWorklist, clOrder, clBuilt, clFrames, clGlobal, clMade,
  loTyping, loSrc, loHeap, loEnv, loFold, loLast,
  liTypes, liNext, liPhase, liStructs, liCollections, liTodo, liDeclared

Classes == INSTANCE EnumerationClasses WITH
  p <- clProgram, incoming <- clIncoming, root <- clRoot, size <- clSize, worklist <- clWorklist,
  order <- clOrder, built <- clBuilt, frames <- clFrames, global <- clGlobal, made <- clMade

ASSUME GlobalProgramsAreWhole == ProgramsAreWhole

Lowered == INSTANCE Lowering WITH
  typing <- loTyping, src <- loSrc, heap <- loHeap, env <- loEnv, fold <- loFold, last <- loLast,
  KeysOf <- KeyNames

Linked == INSTANCE Linking WITH
  types <- liTypes, next <- liNext, phase <- liPhase, structs <- liStructs,
  collections <- liCollections, todo <- liTodo, declared <- liDeclared

clVars == <<clProgram, clIncoming, clRoot, clSize, clWorklist, clOrder, clBuilt, clFrames, clGlobal, clMade>>

loVars == <<loTyping, loSrc, loHeap, loEnv, loFold, loLast>>

liVars == <<liTypes, liNext, liPhase, liStructs, liCollections, liTodo, liDeclared>>

all == <<chosen, enumVars, clVars, globalVars>>

IdleFunctions ==
  /\ p = <<>> /\ classes = {} /\ plan = <<>> /\ encoded = <<>> /\ work = <<>>
  /\ frames = <<>> /\ src = <<>> /\ tgt = <<>> /\ enc = <<>> /\ dec = <<>> /\ status = <<>>

IdleClasses ==
  /\ clProgram = <<>> /\ clIncoming = <<>> /\ clRoot = <<>> /\ clSize = <<>> /\ clWorklist = <<>>
  /\ clOrder = <<>> /\ clBuilt = <<>> /\ clFrames = <<>> /\ clGlobal = <<>> /\ clMade = <<>>

IdleGlobals ==
  /\ prog = <<>> /\ paths = <<>> /\ global = <<>> /\ owner = <<>>
  /\ active = <<>> /\ seen = <<0, 0>>

IdleLowering ==
  /\ loTyping = <<>> /\ loSrc = <<>> /\ loHeap = <<>> /\ loEnv = <<>> /\ loFold = <<>> /\ loLast = <<>>

IdleLinking ==
  /\ liTypes = <<>> /\ liNext = <<>> /\ liPhase = <<>> /\ liStructs = <<>>
  /\ liCollections = <<>> /\ liTodo = <<>> /\ liDeclared = <<>>

TInit ==
  /\ chosen \in Components
  /\ \/ /\ chosen = "functions" /\ Init
        /\ IdleClasses /\ IdleGlobals /\ IdleLowering /\ IdleLinking
     \/ /\ chosen = "classes" /\ Classes!CInit
        /\ IdleFunctions /\ IdleGlobals /\ IdleLowering /\ IdleLinking
     \/ /\ chosen = "globals" /\ GInit
        /\ IdleFunctions /\ IdleClasses /\ IdleLowering /\ IdleLinking
     \/ /\ chosen = "lowering" /\ Lowered!Init
        /\ IdleFunctions /\ IdleClasses /\ IdleGlobals /\ IdleLinking
     \/ /\ chosen = "linking" /\ Linked!LInit
        /\ IdleFunctions /\ IdleClasses /\ IdleGlobals /\ IdleLowering

TNext ==
  \/ chosen = "functions" /\ Next /\ UNCHANGED <<chosen, clVars, globalVars, loVars, liVars>>
  \/ chosen = "classes" /\ Classes!CNext /\ UNCHANGED <<chosen, enumVars, globalVars, loVars, liVars>>
  \/ chosen = "globals" /\ GNext /\ UNCHANGED <<chosen, enumVars, clVars, loVars, liVars>>
  \/ chosen = "lowering" /\ Lowered!Ask /\ UNCHANGED <<all, liVars>>
  \/ chosen = "lowering" /\ Lowered!Change /\ UNCHANGED <<all, liVars>>
  \/ chosen = "lowering" /\ Lowered!Grow /\ UNCHANGED <<all, liVars>>
  \/ chosen = "lowering" /\ Lowered!Shrink /\ UNCHANGED <<all, liVars>>
  \/ chosen = "lowering" /\ Lowered!CopyFrom /\ UNCHANGED <<all, liVars>>
  \/ chosen = "lowering" /\ Lowered!TakeInput /\ UNCHANGED <<all, liVars>>
  \/ chosen = "lowering" /\ Lowered!Objects /\ UNCHANGED <<all, liVars>>
  \/ chosen = "lowering" /\ Lowered!Folds /\ UNCHANGED <<all, liVars>>
  \/ chosen = "linking" /\ Linked!LinkNext /\ UNCHANGED <<all, loVars>>

TSpec == TInit /\ [][TNext]_<<all, loVars, liVars>>

-----------------------------------------------------------------------------
(* The properties, under names of their own; each is stated and explained  *)
(* in its module.                                                          *)

(* Values and elements are translated once, by the mapping of their class. *)
TranslatedValues == chosen = "functions" => ValuesAreTranslated

(* The translation stops where the program does, and says what it says.    *)
KeptOutputs == chosen = "functions" => OutputsAreKept

(* A function finds the mapping of each object that is passed to it.       *)
FollowedObjects == chosen = "classes" => Classes!MappingsFollowObjects

(* What a class builds is built by those that come into it.                *)
CallersBuildMappings ==
  (chosen = "classes" /\ clBuilt # <<>>) => Classes!CallersBuild

(* Lowered accesses find and return what the program's accesses would, and *)
(* those that are supported call operations that exist, within bounds.     *)
LoweredAgrees == chosen = "lowering" => Lowered!LoweredAgrees /\ Lowered!SupportedAccessesRun

(* What SSADestruction calls was linked, and emitted declarations are      *)
(* unique and follow those that they use.                                  *)
LinkedIsEnough == chosen = "linking" => Linked!LinkedIsEnough /\ Linked!DeclaredBeforeUse

(* The accesses that take the end of a collection find its last element.   *)
EndIsTheLast == chosen = "lowering" => Lowered!EndIsTheLast
=============================================================================
