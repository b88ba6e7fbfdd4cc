---------------------------- MODULE Enumeration ----------------------------
(***************************************************************************)
(* Data enumeration within a function and the bodies of its folds: which   *)
(* values and uses of the objects of an equivalence class are encoded      *)
(* (analyze), how far encoded values flow and which translations are       *)
(* redundant (optimize), and what the uses become (transform).  Then the   *)
(* function runs beside its translation.                                   *)
(*                                                                         *)
(* A program has a list of instructions for "main" and for each body,      *)
(*   [op, def, obj, index, val], absent operands Null:                     *)
(*   alloc (index: the kinds of its levels; val: of its elements; "K" is   *)
(*   the type of the keys), insert, write, remove, read, has, fold (val:   *)
(*   initial value), retphi (val: the body), copy, union (val: the input), *)
(*   join (val: "select" or "phi"), eq, out (a use by other code), ret,    *)
(*   which runs on or not where it is not the last;                        *)
(* and fold, for each body: [acc, key, elem, closed, passed, last], the    *)
(* parameters, the values closed on and their versions at its end; bags:   *)
(* the joins, folds and parameters that are collections.                   *)
(* Values have names of their own.  A collection is a function from the    *)
(* paths to its elements: <<k>>, and <<k, l>> in the collection at k.      *)
(* Tuples are left out, so that the offsets of an object are a depth, and  *)
(* calls are the matter of EnumerationClasses.                             *)
(***************************************************************************)
EXTENDS Integers, Sequences, FiniteSets, SequencesExt, TLC

CONSTANTS
  EnumPrograms,   (* the programs                                          *)
  Keys,           (* the values of the key type                            *)
  Inputs,         (* the environments in which "main" runs                 *)
  Null            (* no operand, or no value                               *)

(* Each function and each body ends in a return, a fold has the body that  *)
(* it names, and what it names is a list of operands.                      *)
ASSUME EnumProgramsAreWhole ==
  \A q \in EnumPrograms :
    /\ "main" \in DOMAIN q.code
    /\ \A F \in DOMAIN q.code :
         /\ Len(q.code[F]) \in Nat \ {0} /\ DOMAIN q.code[F] = 1 .. Len(q.code[F])
         /\ q.code[F][Len(q.code[F])].op = "ret"
         /\ \A n \in DOMAIN q.code[F] :
              LET i == q.code[F][n] IN
              /\ Len(i.index) \in Nat /\ DOMAIN i.index = 1 .. Len(i.index)
              /\ i.op = "fold" =>
                   /\ i.def \in DOMAIN q.code
                   /\ Len(q.fold[i.def].passed) \in Nat
                   /\ DOMAIN q.fold[i.def].passed = 1 .. Len(q.fold[i.def].passed)

VARIABLES
  p,         (* the program                                                *)
  classes,   (* the objects of each candidate, which is a class            *)
  plan,      (* TransformInfo of the classes that were optimized           *)
  encoded,   (* the encoded values of the class that is optimized          *)
  work,      (* the worklist of its forward analysis                       *)
  frames,    (* the functions that run: [fun, line, over, rest]            *)
  src, tgt,  (* the values, in the program and in its translation          *)
  enc, dec,  (* the encoder and the decoder of each class                  *)
  status     (* "optimize", "run", "done", "trapped", "diverged"           *)

planVars == <<plan, encoded, work>>
runVars == <<frames, src, tgt, enc, dec>>
enumVars == <<p, classes, planVars, runVars, status>>

With(f, x, y) == [z \in DOMAIN f \cup {x} |-> IF z = x THEN y ELSE f[z]]

-----------------------------------------------------------------------------
(* Uses: <<function, line, slot>>.                                         *)
Obj == 0
Val == -1
Closed(j) == -1 - j

Funs == DOMAIN p.code
Lines == UNION {{<<F, n>> : n \in DOMAIN p.code[F]} : F \in Funs}
At(l) == p.code[l[1]][l[2]]
Body(i) == p.fold[i.def]

Operand(i, s) ==
  CASE s = Obj -> i.obj
    [] s = Val -> i.val
    [] s > 0   -> i.index[s]
    [] OTHER   -> Body(i).passed[-1 - s]

Slots(i) ==
  (IF i.op = "alloc" THEN {} ELSE DOMAIN i.index)
    \cup {s \in {Obj, Val} : Operand(i, s) # Null /\ i.op \notin {"alloc", "join"}
                              /\ (i.op = "retphi" => s = Obj)}
    \cup (IF i.op = "fold" THEN {Closed(j) : j \in DOMAIN Body(i).passed} ELSE {})

Uses == UNION {{<<l[1], l[2], s>> : s \in Slots(At(l))} : l \in Lines}
User(u) == At(<<u[1], u[2]>>)
Used(u) == Operand(User(u), u[3])
UsesOf(v) == {u \in Uses : Used(u) = v}

(* The fold whose body a function is.                                      *)
FoldOf(F) == CHOOSE i \in {At(l) : l \in Lines} : i.op = "fold" /\ i.def = F

-----------------------------------------------------------------------------
(* Objects: <<value, depth>>.                                              *)
Allocs == {l \in Lines : At(l).op = "alloc"}
KeysAt(i, d) == d < Len(i.index) /\ i.index[d + 1] = "K"

AssocObjects ==
  UNION {{<<At(l).def, d>> : d \in {e \in 0 .. 2 : KeysAt(At(l), e)}} : l \in Allocs}

Propagators ==
  {<<At(l).def, Len(At(l).index)>> : l \in {m \in Allocs : At(m).val = "K" /\ AssocObjects # {}}}

AllocOf(o) == CHOOSE l \in Allocs : At(l).def = o[1]
FunctionOf(o) == AllocOf(o)[1]
IsPropagator(o) == o[2] = Len(At(AllocOf(o)).index)

(* match_offsets: the indices that go down the offsets.                    *)
Distance(i, d) == IF Len(i.index) < d THEN Len(i.index) ELSE d

Updates == {"insert", "write", "remove", "union"}

(* gather_redefinitions, one use.                                          *)
RedefinedBy(u, d) ==
  LET i == User(u) IN
  CASE i.op = "retphi" \/ (i.op = "join" /\ i.val = "phi") -> {<<i.def, d>>}
    [] i.op \in Updates /\ u[3] = Obj -> {<<i.def, d>>}
    [] i.op = "fold" /\ u[3] = Val -> {<<Body(i).acc, d>>, <<i.def, d>>}
    [] i.op = "fold" /\ u[3] = Obj ->
         IF Body(i).elem # Null /\ Distance(i, d) < d
         THEN {<<Body(i).elem, d - Distance(i, d) - 1>>} ELSE {}
    [] i.op = "fold" /\ u[3] < Val -> {<<Body(i).closed[-1 - u[3]], d>>}
    [] OTHER -> {}

(* An element that is no object is not followed.                           *)
IsCollection(o, r) == ~IsPropagator(o) \/ r[2] > 0

Redefinitions(o) ==
  LET step(R) == R \cup UNION {UNION {{s \in RedefinedBy(u, r[2]) : IsCollection(o, s)} :
                                        u \in UsesOf(r[1])} : r \in R}
      reached[n \in 0 .. Cardinality(Lines) + 6] == IF n = 0 THEN {o} ELSE step(reached[n - 1])
  IN  reached[Cardinality(Lines) + 6]

(* gather_uses_to_enumerate and gather_uses_to_propagate of a redefinition *)
(* r: the accesses to it, the parameters and results to decode, the uses   *)
(* to add a key for and those to encode.                                   *)
Accesses(r) == {u \in UsesOf(r[1]) : u[3] = Obj /\ User(u).op \in Updates \cup {"read", "has", "fold"}}

IndexUses(r) == {<<u[1], u[2], r[2] + 1>> : u \in {a \in Accesses(r) : Len(User(a).index) > r[2]}}

IsLastIndex(u) == u[3] = Len(User(u).index)

DecodedBy(o, r) ==
  IF IsPropagator(o)
  THEN {User(u).def : u \in {a \in Accesses(r) : User(a).op = "read" /\ Len(User(a).index) = r[2]}}
         \cup ({Body(User(u)).elem : u \in {a \in Accesses(r) : User(a).op = "fold"
                                              /\ Len(User(a).index) + 1 = r[2]}} \ {Null})
  ELSE {Body(User(u)).key : u \in {a \in Accesses(r) : User(a).op = "fold"
                                     /\ Len(User(a).index) = r[2]}}

AddedBy(o, r) ==
  IF IsPropagator(o)
  THEN {<<u[1], u[2], Val>> : u \in {a \in Accesses(r) : User(a).op \in {"insert", "write"}
                                       /\ User(a).val # Null /\ Len(User(a).index) = r[2]}}
  ELSE {u \in IndexUses(r) : User(u).op = "insert" /\ IsLastIndex(u)}

EncodedBy(o, r) ==
  IF IsPropagator(o) THEN {} ELSE IndexUses(r) \ AddedBy(o, r)

Gathered(class) == UNION {{<<o, r>> : r \in Redefinitions(o)} : o \in class}

-----------------------------------------------------------------------------
(* The candidates: an object with keys, and others of its function that    *)
(* the heuristic lets share with it.                                       *)
Candidates ==
  {c \in SUBSET (AssocObjects \cup Propagators) :
     /\ c \cap AssocObjects # {}
     /\ \A o, q \in c : FunctionOf(o) = FunctionOf(q)}

Init ==
  /\ p \in EnumPrograms
  /\ classes \in {cs \in SUBSET Candidates :
                    cs # {} /\ \A c, b \in cs : c # b => c \cap b = {}}
  /\ plan = <<>> /\ encoded = {} /\ work = <<>>
  /\ frames = <<>> /\ src = <<>> /\ tgt = <<>> /\ enc = <<>> /\ dec = <<>>
  /\ status = "optimize"

Current == {c \in DOMAIN plan : ~plan[c].ready}

(* gather_uses: the worklist of forward_analysis is filled from hash sets. *)
Gather(c) ==
  /\ status = "optimize" /\ Current = {}
  /\ c \in classes \ DOMAIN plan
  /\ LET values == UNION {DecodedBy(x[1], x[2]) : x \in Gathered(c)} IN
     \E w \in SetToSeqs(values) :
       /\ encoded' = values
       /\ work' = w
       /\ plan' = With(plan, c, [ready |-> FALSE])
  /\ UNCHANGED <<p, classes, runVars, status>>

(* forward_analysis, one use of the value popped: what becomes encoded and *)
(* what is pushed.  A fold's initial value makes its accumulator encoded;  *)
(* a value returned makes the fold's result encoded if the accumulator is, *)
(* else the accumulator's uses are visited, although it is not encoded.    *)
ForwardUse(u, known) ==
  LET i == User(u) IN
  CASE i.def \in known -> <<known, <<>> >>
    [] i.op = "join" /\ \A k \in DOMAIN i.index : i.index[k] \in known ->
         <<known \cup {i.def}, <<i.def>> >>
    [] i.op = "ret" /\ u[1] # "main" ->
         LET fold == FoldOf(u[1]) IN
         IF Body(fold).acc \in known THEN <<known \cup {fold.def}, <<fold.def>> >>
         ELSE <<known, <<Body(fold).acc>> >>
    [] i.op = "fold" /\ u[3] = Val /\ Body(i).acc \notin known ->
         <<known \cup {Body(i).acc}, <<Body(i).acc>> >>
    [] i.op = "fold" /\ u[3] < Val /\ Body(i).closed[-1 - u[3]] \notin known ->
         LET param == Body(i).closed[-1 - u[3]] IN <<known \cup {param}, <<param>> >>
    [] OTHER -> <<known, <<>> >>

ForwardAll(v) ==
  LET us == SetToSeq(UsesOf(v))
      walked[n \in 0 .. Len(us)] ==
        IF n = 0 THEN <<encoded, Front(work)>>
        ELSE LET near == walked[n - 1]
                 now  == ForwardUse(us[n], near[1]) IN
             <<now[1], near[2] \o SelectSeq(now[2], LAMBDA w : w \notin ToSet(near[2]))>>
  IN  walked[Len(us)]

Forward ==
  /\ status = "optimize" /\ work # <<>>
  /\ LET after == ForwardAll(Last(work)) IN encoded' = after[1] /\ work' = after[2]
  /\ UNCHANGED <<p, classes, plan, runVars, status>>

(* MUTANT: whether what is defined is encoded is not looked at.            *)
TakesAny(u) == User(u).op \in {"join", "fold", "ret"}

(* gather_uses: uses of an encoded value that take it as it is.            *)
TakesEncoded(u) ==
  LET i == User(u) IN
  CASE i.op = "join" -> i.def \in encoded
    [] i.op = "fold" -> \/ u[3] = Val /\ Body(i).acc \in encoded
                        \/ u[3] < Val /\ Body(i).closed[-1 - u[3]] \in encoded
    [] i.op = "ret" /\ u[1] # "main" -> FoldOf(u[1]).def \in encoded
    [] OTHER -> FALSE

UsesToDecode == {u \in Uses : Used(u) \in encoded /\ ~TakesEncoded(u)}

(* MUTANT: one encoded operand is enough.                                  *)
ComparesOneEncoded(u) ==
  User(u).op = "eq" /\ \E k \in DOMAIN User(u).index : User(u).index[k] \in encoded

(* eliminate_redundant_translations: comparisons of two encoded values,    *)
(* and uses to be encoded of values that are.                              *)
ComparesEncoded(u) ==
  User(u).op = "eq" /\ \A k \in DOMAIN User(u).index : User(u).index[k] \in encoded

Encoded(u) == Used(u) \in encoded

Optimized(c) ==
  LET adds    == UNION {AddedBy(x[1], x[2]) : x \in Gathered(c)}
      encodes == UNION {EncodedBy(x[1], x[2]) : x \in Gathered(c)} IN
  [decodes |-> UsesToDecode # {},
   decode  |-> {u \in UsesToDecode : ~ComparesEncoded(u)
                                       /\ ~(Encoded(u) /\ u \in adds \cup encodes)},
   addkey  |-> {u \in adds : ~Encoded(u)},
   encode  |-> {u \in encodes : ~Encoded(u)},
   objects |-> UNION {Redefinitions(o) : o \in c},
   encoded |-> encoded, ready |-> TRUE]

Optimize ==
  /\ status = "optimize" /\ work = <<>>
  /\ \E c \in Current : plan' = [plan EXCEPT ![c] = Optimized(c)]
  /\ encoded' = {}
  /\ UNCHANGED <<p, classes, work, runVars, status>>

-----------------------------------------------------------------------------
(* The program and its translation.                                        *)
Start ==
  /\ status = "optimize" /\ DOMAIN plan = classes /\ Current = {}
  /\ status' = "run"
  /\ \E e \in Inputs : src' = e /\ tgt' = e
  /\ frames' = <<[fun |-> "main", line |-> 1, rest |-> {}]>>
  /\ enc' = [c \in classes |-> <<>>]
  /\ dec' = [c \in classes |-> <<>>]
  /\ UNCHANGED <<p, classes, planVars>>

Top == Last(frames)
Here == <<Top.fun, Top.line>>
Advanced == [frames EXCEPT ![Len(frames)].line = @ + 1]

Decoding(u) == {c \in classes : u \in plan[c].decode}
Adding(u) == {c \in classes : u \in plan[c].addkey}
Encoding(u) == {c \in classes : u \in plan[c].encode}
(* An entry of to_decode is made when a use is, and outlasts it.           *)
BuildsDecoder(c) == plan[c].decodes

(* decode_value, of the one class that has the use (handled).              *)
DecodedUse(u, m) ==
  IF Decoding(u) = {} THEN tgt[Used(u)]
  ELSE LET c == CHOOSE b \in Decoding(u) : TRUE IN
       IF tgt[Used(u)] \in 0 .. Len(m.dec[c]) - 1 THEN m.dec[c][tgt[Used(u)] + 1] ELSE Null

(* MUTANT: the new identifier is taken after the key was inserted.         *)
AddLate(c, key, m) ==
  IF key \in DOMAIN m.enc[c] THEN m
  ELSE [m EXCEPT !.enc[c] = With(@, key, Cardinality(DOMAIN @) + 1),
                 !.dec[c] = IF BuildsDecoder(c) THEN Append(@, key) ELSE @]

(* The function that create_addkey_function makes.                         *)
Add(c, key, m) ==
  IF key \in DOMAIN m.enc[c] THEN m
  ELSE [m EXCEPT !.enc[c] = With(@, key, Cardinality(DOMAIN @)),
                 !.dec[c] = IF BuildsDecoder(c) THEN Append(@, key) ELSE @]

(* A use is decoded, then its key added or encoded: val of its slot, Null  *)
(* where a mapping is read at a place that it does not have.               *)
TranslatedUse(u, m) ==
  LET v == DecodedUse(u, m)
      c == CHOOSE b \in Adding(u) \cup Encoding(u) : TRUE
      n == IF Adding(u) # {} THEN Add(c, v, m) ELSE m IN
  IF Adding(u) \cup Encoding(u) = {} THEN [m EXCEPT !.val = With(@, u[3], v)]
  ELSE [n EXCEPT !.val = With(@, u[3], IF v \in DOMAIN n.enc[c] THEN n.enc[c][v] ELSE Null)]

(* All uses of an instruction, and of a PHI the one of the edge taken.     *)
Translated(slots) ==
  LET us == SetToSeq(slots)
      done[n \in 0 .. Len(us)] ==
        IF n = 0 THEN [val |-> <<>>, enc |-> enc, dec |-> dec]
        ELSE TranslatedUse(<<Here[1], Here[2], us[n]>>, done[n - 1])
  IN  done[Len(us)]

IsGuarded(i, s) ==
  i.op = "has" /\ s = Len(i.index) /\ Encoding(<<Here[1], Here[2], s>>) # {}

Path(i, val) == [k \in 1 .. Len(i.index) |-> val[k]]
Under(c, path) == {q \in DOMAIN c : IsPrefix(path, q)}
At_(c, path) == [q \in {SubSeq(r, Len(path) + 1, Len(r)) : r \in Under(c, path) \ {path}} |-> c[path \o q]]
Element(c, path) == IF c[path] = Null THEN At_(c, path) ELSE c[path]
Has(c, path) == path \in DOMAIN c

(* What an access makes of a collection, or finds there.                   *)
Inserted(c, path, e) == IF e = Null /\ Has(c, path) THEN c ELSE With(c, path, e)
Removed(c, path) == [q \in DOMAIN c \ Under(c, path) |-> c[q]]
United(c, e) == [q \in DOMAIN c \cup DOMAIN e |-> IF q \in DOMAIN e THEN e[q] ELSE c[q]]
Found(c, path) == IF Has(c, path) THEN c[path] ELSE Null

Result(i, val) ==
  LET path == Path(i, val) IN
  CASE i.op = "insert" -> Inserted(val[Obj], path, IF i.val = Null THEN Null ELSE val[Val])
    [] i.op = "write"  -> With(val[Obj], path, val[Val])
    [] i.op = "remove" -> Removed(val[Obj], path)
    [] i.op = "union"  -> United(val[Obj], val[Val])
    [] i.op = "read"   -> Found(val[Obj], path)
    [] i.op = "has"    -> Has(val[Obj], path)
    [] i.op = "copy"   -> val[Obj]
    [] i.op = "eq"     -> val[1] = val[2]

(* The program itself does not access what is not there.                   *)
Defined(i, val) ==
  LET path == Path(i, val) IN
  /\ i.op \in {"insert", "has", "remove"} => Len(path) = 1 \/ Has(val[Obj], Front(path))
  /\ i.op \in {"write", "read"} => Has(val[Obj], path)
  /\ i.op = "fold" => path = <<>> \/ Has(val[Obj], path)

Running == status = "run" /\ UNCHANGED <<p, classes, planVars>>
Instr == At(Here)
SourceOf(slots) == [s \in slots |-> src[Operand(Instr, s)]]

Becomes(v, sv, tv) == src' = With(src, v, sv) /\ tgt' = With(tgt, v, tv)
Mappings(m) == enc' = m.enc /\ dec' = m.dec
Ends(how) == status' = how /\ UNCHANGED <<frames, src, tgt>>

(* store_allocation: the mappings of a class are made before the first of  *)
(* its objects in the function.                                            *)
First(c) == CHOOSE l \in {AllocOf(o) : o \in c} : \A o \in c : l[2] <= AllocOf(o)[2]

Allocate ==
  /\ Running /\ Instr.op = "alloc"
  /\ LET new == {c \in classes : First(c) = Here} IN
     /\ enc' = [c \in classes |-> IF c \in new THEN <<>> ELSE enc[c]]
     /\ dec' = [c \in classes |-> IF c \in new THEN <<>> ELSE dec[c]]
  /\ Becomes(Instr.def, <<>>, <<>>)
  /\ frames' = Advanced
  /\ UNCHANGED status

(* An access, a comparison, a select or a copy.                            *)
Compute ==
  /\ Running /\ Instr.op \in {"read", "has", "eq", "copy"} \cup Updates
  /\ LET slots == Slots(Instr)
         val == SourceOf(slots)
         m == Translated(slots)
         misses == {s \in slots : val[s] # Null /\ m.val[s] = Null} IN
     IF ~Defined(Instr, val) THEN Ends("undefined") /\ UNCHANGED <<enc, dec>>
     ELSE /\ Mappings(m)
          /\ IF \E s \in misses : ~IsGuarded(Instr, s) THEN Ends("trapped")
             ELSE /\ Becomes(Instr.def, Result(Instr, val),
                             IF misses # {} THEN FALSE ELSE Result(Instr, m.val))
                  /\ frames' = Advanced
                  /\ UNCHANGED status

(* A select or a PHI: each translation is made where its operand is used.  *)
Join ==
  /\ Running /\ Instr.op = "join"
  /\ \E s \in DOMAIN Instr.index :
       LET m == Translated(IF Instr.val = "phi" THEN {s} ELSE Slots(Instr)) IN
       /\ Operand(Instr, s) \in DOMAIN src
       /\ Mappings(m)
       /\ IF \E k \in DOMAIN m.val : m.val[k] = Null THEN Ends("trapped")
          ELSE /\ Becomes(Instr.def, src[Operand(Instr, s)], m.val[s])
               /\ frames' = Advanced
               /\ UNCHANGED status

(* A use by code that enumeration does not know.                           *)
Output ==
  /\ Running /\ Instr.op = "out"
  /\ LET m == Translated({1}) IN
     IF m.val[1] = src[Operand(Instr, 1)]
     THEN frames' = Advanced /\ UNCHANGED <<src, tgt, enc, dec, status>>
     ELSE Ends("diverged") /\ UNCHANGED <<enc, dec>>

-----------------------------------------------------------------------------
(* Folds.  The body runs for each element, of both collections at once.    *)
ClassAt(v, d) == {c \in classes : <<v, d>> \in plan[c].objects}
Renamed(cs, x) ==
  IF cs = {} THEN x
  ELSE LET c == CHOOSE b \in cs : TRUE IN IF x \in DOMAIN enc[c] THEN enc[c][x] ELSE Null

Names(F) ==
  {p.code[F][n].def : n \in DOMAIN p.code[F]} \cup {p.fold[F].acc, p.fold[F].key, p.fold[F].elem}
    \cup ToSet(p.fold[F].closed)

Without(f, names) == [v \in DOMAIN f \ names |-> f[v]]

(* The parameters of an iteration on the key k: accumulator and closed     *)
(* values are pairs of the program's and its translation's.                *)
Params(F, k, acc, closed, side, under) ==
  LET f == p.fold[F]
      own == [v \in {f.acc, f.key} |-> IF v = f.acc THEN acc[side] ELSE k]
      elem == IF f.elem = Null THEN <<>> ELSE [v \in {f.elem} |-> Element(under, <<k>>)]
  IN  own @@ elem @@ [v \in ToSet(f.closed) |-> closed[CHOOSE j \in DOMAIN f.closed : f.closed[j] = v][side]]

(* The keys of a collection, next to those of its translation.             *)
KeysOf(c) == {q[1] : q \in DOMAIN c}

Iterate(below, F, acc, closed, s, t, rest) ==
  \E k \in rest :
    LET i == FoldOf(F)
        key == Renamed(ClassAt(i.obj, Len(i.index)), k) IN
    IF key \notin KeysOf(t) THEN Ends("diverged")
    ELSE /\ src' = Params(F, k, acc, closed, 1, s) @@ Without(src, Names(F))
         /\ tgt' = Params(F, key, acc, closed, 2, t) @@ Without(tgt, Names(F))
         /\ frames' = Append(below, [fun |-> F, line |-> 1, over |-> <<s, t>>, rest |-> rest \ {k}])
         /\ UNCHANGED status

Fold ==
  /\ Running /\ Instr.op = "fold"
  /\ LET slots == Slots(Instr)
         val == SourceOf(slots)
         m == Translated(slots)
         s == At_(val[Obj], Path(Instr, val))
         t == At_(m.val[Obj], Path(Instr, m.val))
         passed == [j \in DOMAIN Body(Instr).passed |-> <<val[Closed(j)], m.val[Closed(j)]>>] IN
     IF ~Defined(Instr, val) THEN Ends("undefined") /\ UNCHANGED <<enc, dec>>
     ELSE /\ Mappings(m)
          /\ IF \E k \in slots : m.val[k] = Null THEN Ends("trapped")
             ELSE IF Cardinality(KeysOf(s)) # Cardinality(KeysOf(t)) THEN Ends("diverged")
             ELSE IF s = <<>>
             THEN /\ src' = With(Without(src, Names(Instr.def)), Instr.def, val[Val])
                  /\ tgt' = With(Without(tgt, Names(Instr.def)), Instr.def, m.val[Val])
                  /\ frames' = Advanced /\ UNCHANGED status
             ELSE Iterate(frames, Instr.def, <<val[Val], m.val[Val]>>, passed, s, t, KeysOf(s))

(* A return of the body: the next iteration, or the fold's result.         *)
Return ==
  /\ Running /\ Instr.op = "ret" /\ Len(frames) > 1
  /\ LET m == Translated({1})
         acc == <<src[Operand(Instr, 1)], m.val[1]>>
         f == p.fold[Top.fun]
         last == [j \in DOMAIN f.last |-> <<src[f.last[j]], tgt[f.last[j]]>>]
         below == Front(frames) IN
     /\ Mappings(m)
     /\ IF acc[2] = Null THEN Ends("trapped")
        ELSE IF Top.rest # {}
        THEN Iterate(below, Top.fun, acc, last, Top.over[1], Top.over[2], Top.rest)
        ELSE /\ Becomes(Top.fun, acc[1], acc[2])
             /\ frames' = [below EXCEPT ![Len(below)].line = @ + 1]
             /\ UNCHANGED status

(* A return that the branch before it does not take.                       *)
PassBy ==
  /\ Running /\ Instr.op = "ret" /\ Top.line < Len(p.code[Top.fun])
  /\ frames' = Advanced
  /\ UNCHANGED <<src, tgt, enc, dec, status>>

(* The version of a value closed on that is live after the fold.           *)
RetPhi ==
  /\ Running /\ Instr.op = "retphi"
  /\ LET f == p.fold[Instr.val]
         j == CHOOSE k \in DOMAIN f.passed : f.passed[k] = Instr.obj
         v == IF f.last[j] \in DOMAIN src THEN f.last[j] ELSE Instr.obj IN
     Becomes(Instr.def, src[v], tgt[v])
  /\ frames' = Advanced
  /\ UNCHANGED <<enc, dec, status>>

Finish ==
  /\ Running /\ Instr.op = "ret" /\ Len(frames) = 1
  /\ Ends("done")
  /\ UNCHANGED <<enc, dec>>

Next ==
  \/ \E c \in classes : Gather(c)
  \/ Forward \/ Optimize \/ Start
  \/ Allocate \/ Compute \/ Join \/ Output \/ Fold \/ Return \/ PassBy \/ RetPhi \/ Finish

Spec == Init /\ [][Next]_enumVars

-----------------------------------------------------------------------------
(* The values that are collections: a function, TLC cannot tell.           *)
Collections ==
  {i.def : i \in {At(l) : l \in {m \in Lines : At(m).op \in Updates \cup {"alloc", "copy", "retphi"}}}}
    \cup p.bags

(* What the pass does not provide for.                                     *)

(* An accumulator is encoded with all that flows into it and out of it,    *)
(* and a parameter that a body closes on with what is passed.              *)
Returned(F) == {p.code[F][n].index[1] : n \in {k \in DOMAIN p.code[F] : p.code[F][k].op = "ret"}}

FoldsAreConsistent ==
  \A c \in classes, F \in DOMAIN p.fold :
    LET E == plan[c].encoded
        f == p.fold[F] IN
    /\ f.acc \in E => Returned(F) \cup {FoldOf(F).val, F} \subseteq E
    /\ F \in E => f.acc \in E
    /\ \A j \in DOMAIN f.closed : f.closed[j] \in E => f.passed[j] \in E

(* Redefinitions are of one class, and so are collections that come        *)
(* together; none is copied.                                               *)
Depths == 0 .. 2
Together(vs) == \A v, w \in vs, d \in Depths : ClassAt(v, d) = ClassAt(w, d)

ObjectsStayApart ==
  /\ \A c, b \in classes : c # b => /\ plan[c].objects \cap plan[b].objects = {}
                                    /\ plan[c].encoded \cap plan[b].encoded = {}
  /\ \A l \in Lines : LET i == At(l) IN
       /\ i.op = "join"  => Together({i.def} \cup ToSet(i.index))
       /\ i.op = "union" => Together({i.obj, i.val})
       /\ i.op = "copy"  => Together({i.def, i.obj})
       /\ i.op = "fold"  => Together(Returned(i.def) \cup {i.def, i.val, p.fold[i.def].acc})

Provided == FoldsAreConsistent /\ ObjectsStayApart

Optimized_ == status # "optimize"

(***************************************************************************)
(* Properties.                                                             *)
(***************************************************************************)

(* The identifiers of a class are 0, 1, ... without a gap or a double, and *)
(* the decoder, where it is built, is the inverse of the encoder           *)
(* (create_addkey_function).                                               *)
MappingsAreInverse ==
  Optimized_ =>
    \A c \in classes :
      /\ {enc[c][k] : k \in DOMAIN enc[c]} = 0 .. Cardinality(DOMAIN enc[c]) - 1
      /\ BuildsDecoder(c) => /\ Len(dec[c]) = Cardinality(DOMAIN enc[c])
                              /\ \A k \in DOMAIN enc[c] : dec[c][enc[c][k] + 1] = k

(* Each value of the translation is the program's, under the enumeration   *)
(* of its class: the keys of every level of a collection that belongs to   *)
(* the class, its elements, and the values the analysis takes for encoded. *)
(* So no use is left out, translated twice or by a mapping of another.     *)
Translation(v) ==
  LET x == src[v]
      cs == {c \in classes : v \in plan[c].encoded}
      path(q) == [d \in DOMAIN q |-> Renamed(ClassAt(v, d - 1), q[d])]
      element(q) == IF x[q] = Null THEN Null ELSE Renamed(ClassAt(v, Len(q)), x[q]) IN
  IF v \notin Collections THEN Renamed(cs, x)
  ELSE {<<path(q), element(q)>> : q \in DOMAIN x}

Graph(v) == IF v \in Collections THEN {<<q, tgt[v][q]>> : q \in DOMAIN tgt[v]} ELSE tgt[v]

ValuesAreTranslated ==
  (Optimized_ /\ Provided) => \A v \in DOMAIN src : Graph(v) = Translation(v)

(* The translation never reads a mapping where it has no entry, and other  *)
(* code sees the values that it sees in the program.  A remove of a key    *)
(* that is absent does read the encoder there.                             *)
OutputsAreKept ==
  (Optimized_ /\ Provided) =>
    /\ status # "diverged"
    /\ status = "trapped" => /\ Instr.op = "remove"
                              /\ LET val == SourceOf(Slots(Instr)) IN ~Has(val[Obj], Path(Instr, val))
=============================================================================
