------------------------ MODULE TransformationProofs ------------------------
(***************************************************************************)
(* Data enumeration within a function, and the promotion of the globals    *)
(* that hold its mappings.                                                 *)
(*                                                                         *)
(* The encoder of a class numbers its keys without a gap and its decoder   *)
(* is the inverse, for any programs, classes and inputs.  The argument is  *)
(* about the uses that an instruction translates: in whatever order they   *)
(* come, each leaves both mappings alone or adds a key to both.            *)
(*                                                                         *)
(* The locals that replace a global hold its value where it is loaded, for *)
(* any programs and any depth of calls.  The argument is about the calls   *)
(* that are active: between the store that gave the global its value and   *)
(* the load, every function lies on a path from the one to the other, so   *)
(* that every call between them hands the value down.                      *)
(***************************************************************************)
EXTENDS Enumeration, PromoteGlobals, Iterations

(***************************************************************************)
(* Data enumeration.                                                       *)
(***************************************************************************)

(* The keys of an encoder are numbered 0, 1, ....                          *)
Numbers(e) == {e[k] : k \in DOMAIN e}
Onto(e) == IsFiniteSet(DOMAIN e) /\ Numbers(e) = 0 .. Cardinality(DOMAIN e) - 1

(* A decoder lists the keys of an encoder, each at its number.             *)
Inverts(e, d) ==
  /\ d \in Seq(DOMAIN e) /\ Len(d) = Cardinality(DOMAIN e)
  /\ \A k \in DOMAIN e : d[e[k] + 1] = k

MappingOK(c, e, d) == Onto(e) /\ (BuildsDecoder(c) => Inverts(e, d))

MappingsOK(en, de) ==
  /\ DOMAIN en = classes /\ DOMAIN de = classes
  /\ \A c \in classes : MappingOK(c, en[c], de[c])

(* What a function is translated with: the values of the operands so far,  *)
(* and the mappings.                                                       *)
TranslationOK(m) == {"val", "enc", "dec"} \subseteq DOMAIN m /\ MappingsOK(m.enc, m.dec)

(* The functions that run: the one at the top at a line that it has, those *)
(* below it at the fold whose body is above them.                          *)
FrameOK(code, f) ==
  {"fun", "line"} \subseteq DOMAIN f /\ f.fun \in DOMAIN code /\ f.line \in DOMAIN code[f.fun]

AtFold(code, f) == code[f.fun][f.line].op = "fold"

StackOK(code, s) ==
  /\ \E S : s \in Seq(S)
  /\ s # <<>>
  /\ \A k \in DOMAIN s : FrameOK(code, s[k])
  /\ \A k \in 1 .. Len(s) - 1 : AtFold(code, s[k])

(* The inductive invariant.                                                *)
EnumInv ==
  /\ p \in EnumPrograms
  /\ Optimized_ => MappingsOK(enc, dec) /\ StackOK(p.code, frames)

-----------------------------------------------------------------------------
(* Mappings                                                                *)

(* A function that is given a value at x.                                  *)
LEMMA WithValue ==
  ASSUME NEW f, NEW x, NEW y, NEW z \in DOMAIN With(f, x, y)
  PROVE  With(f, x, y)[z] = IF z = x THEN y ELSE f[z]
BY DEF With

LEMMA WithDomain ==
  ASSUME NEW f, NEW x, NEW y
  PROVE  DOMAIN With(f, x, y) = DOMAIN f \cup {x}
BY DEF With

(* The mappings that are made are empty.                                   *)
LEMMA EmptyMapping == Onto(<<>>) /\ Inverts(<<>>, <<>>)
<1>1. DOMAIN <<>> = {}
  OBVIOUS
<1>2. IsFiniteSet({}) /\ Cardinality({}) = 0
  BY FS_EmptySet
<1>3. Onto(<<>>)
  <2>1. Numbers(<<>>) = {}
    BY <1>1 DEF Numbers
  <2>2. 0 .. 0 - 1 = {}
    OBVIOUS
  <2> QED BY <1>1, <1>2, <2>1, <2>2 DEF Onto
<1>4. Inverts(<<>>, <<>>)
  BY <1>1, <1>2 DEF Inverts
<1> QED BY <1>3, <1>4

(* A key that is new, with the number of keys before it for its number, at *)
(* the end of the decoder.                                                 *)
LEMMA KeyIsNumbered ==
  ASSUME NEW e, Onto(e), NEW key, key \notin DOMAIN e,
         NEW new, new = With(e, key, Cardinality(DOMAIN e))
  PROVE  /\ Onto(new)
         /\ \A d : Inverts(e, d) => Inverts(new, Append(d, key))
<1> DEFINE D == DOMAIN e
           N == Cardinality(D)
<1>1. IsFiniteSet(D) /\ N \in Nat
  BY FS_CardinalityType DEF Onto
<1>2. DOMAIN new = D \cup {key} /\ IsFiniteSet(DOMAIN new) /\ Cardinality(DOMAIN new) = N + 1
  <2>1. DOMAIN new = D \cup {key}
    BY WithDomain
  <2> HIDE DEF D
  <2>2. IsFiniteSet(D \cup {key}) /\ Cardinality(D \cup {key}) = IF key \in D THEN N ELSE N + 1
    BY <1>1, FS_AddElement
  <2> QED BY <2>1, <2>2 DEF D
<1>3. new[key] = N /\ \A k \in D : new[k] = e[k]
  BY <1>2, WithValue
<1>4. \A x : x \in Numbers(e) <=> x \in 0 .. N - 1
  BY DEF Onto
<1>5. \A k \in D : e[k] \in 0 .. N - 1
  BY <1>4 DEF Numbers
<1>6. Onto(new)
  <2>1. \A x : x \in Numbers(new) <=> x \in Numbers(e) \/ x = N
    BY <1>2, <1>3 DEF Numbers
  <2>2. \A x : x \in Numbers(new) <=> x \in 0 .. (N + 1) - 1
    BY <1>1, <1>4, <2>1
  <2>3. Numbers(new) = 0 .. (N + 1) - 1
    BY <2>2
  <2> QED BY <1>2, <2>3 DEF Onto
<1>7. ASSUME NEW d, Inverts(e, d) PROVE Inverts(new, Append(d, key))
  <2> DEFINE a == Append(d, key)
  <2>1. d \in Seq(D) /\ Len(d) = N /\ \A k \in D : d[e[k] + 1] = k
    BY <1>7 DEF Inverts
  <2>2. d \in Seq(DOMAIN new) /\ key \in DOMAIN new
    BY <1>2, <2>1
  <2>3. a \in Seq(DOMAIN new) /\ Len(a) = N + 1 /\ a[N + 1] = key /\ \A j \in 1 .. N : a[j] = d[j]
    BY <2>1, <2>2
  <2>4. \A k \in D : a[e[k] + 1] = k
    BY <1>1, <1>5, <2>1, <2>3
  <2> HIDE DEF a
  <2>5. \A k \in DOMAIN new : a[new[k] + 1] = k
    BY <1>2, <1>3, <2>3, <2>4
  <2> QED BY <1>2, <2>3, <2>5 DEF Inverts, a
<1> QED BY <1>6, <1>7

(* The function that create_addkey_function makes.                         *)
LEMMA AddKeepsMappings ==
  ASSUME NEW c \in classes, NEW key, NEW m, TranslationOK(m)
  PROVE  TranslationOK(Add(c, key, m))
<1> DEFINE e == m.enc[c]
           new == With(e, key, Cardinality(DOMAIN e))
           d == m.dec[c]
           longer == IF BuildsDecoder(c) THEN Append(d, key) ELSE d
           n == [m EXCEPT !.enc[c] = new, !.dec[c] = longer]
<1>1. CASE key \in DOMAIN m.enc[c]
  BY <1>1 DEF Add
<1>2. CASE key \notin DOMAIN m.enc[c]
  <2>1. Add(c, key, m) = n
    BY <1>2 DEF Add
  <2>2. MappingOK(c, e, d)
    BY DEF TranslationOK, MappingsOK
  <2>3. Onto(new) /\ \A b : Inverts(e, b) => Inverts(new, Append(b, key))
    <3>1. Onto(e) /\ key \notin DOMAIN e
      BY <1>2, <2>2 DEF MappingOK
    <3> HIDE DEF e
    <3> QED BY <3>1, KeyIsNumbered
  <2>4. MappingOK(c, new, longer)
    <3> HIDE DEF e, new, d
    <3> QED BY <2>2, <2>3 DEF MappingOK
  <2> HIDE DEF new, longer
  <2>5. {"val", "enc", "dec"} \subseteq DOMAIN m /\ DOMAIN m.enc = classes /\ DOMAIN m.dec = classes
    BY DEF TranslationOK, MappingsOK
  <2>6. /\ {"val", "enc", "dec"} \subseteq DOMAIN n
        /\ n.enc = [m.enc EXCEPT ![c] = new] /\ n.dec = [m.dec EXCEPT ![c] = longer]
    BY <2>5
  <2> HIDE DEF n
  <2>7. DOMAIN n.enc = classes /\ DOMAIN n.dec = classes
    BY <2>5, <2>6
  <2>8. \A b \in classes : MappingOK(b, n.enc[b], n.dec[b])
    <3>1. n.enc[c] = new /\ n.dec[c] = longer
      BY <2>5, <2>6
    <3>2. \A b \in classes : b # c => n.enc[b] = m.enc[b] /\ n.dec[b] = m.dec[b]
      BY <2>5, <2>6
    <3>3. \A b \in classes : MappingOK(b, m.enc[b], m.dec[b])
      BY DEF TranslationOK, MappingsOK
    <3> QED BY <2>4, <3>1, <3>2, <3>3
  <2> QED BY <2>1, <2>6, <2>7, <2>8 DEF TranslationOK, MappingsOK
<1> QED BY <1>1, <1>2

(* A use is decoded, and its key added or encoded.                         *)
LEMMA UseKeepsMappings ==
  ASSUME NEW u, NEW m, TranslationOK(m)
  PROVE  TranslationOK(TranslatedUse(u, m))
<1> DEFINE v == DecodedUse(u, m)
           c == CHOOSE b \in Adding(u) \cup Encoding(u) : TRUE
           n == IF Adding(u) # {} THEN Add(c, v, m) ELSE m
           number == IF v \in DOMAIN n.enc[c] THEN n.enc[c][v] ELSE Null
           Valued(t, x) == [t EXCEPT !.val = With(@, u[3], x)]
<1>1. ASSUME NEW t, TranslationOK(t), NEW x PROVE TranslationOK(Valued(t, x))
  <2> DEFINE after == Valued(t, x)
  <2>1. {"val", "enc", "dec"} \subseteq DOMAIN t
    BY <1>1 DEF TranslationOK
  <2>2. {"val", "enc", "dec"} \subseteq DOMAIN after /\ after.enc = t.enc /\ after.dec = t.dec
    BY <2>1
  <2> HIDE DEF after
  <2>3. TranslationOK(after)
    BY <1>1, <2>2 DEF TranslationOK
  <2> QED BY <2>3 DEF after
<1>2. CASE Adding(u) \cup Encoding(u) = {}
  <2>1. TranslatedUse(u, m) = Valued(m, v)
    BY <1>2 DEF TranslatedUse
  <2> HIDE DEF Valued
  <2> QED BY <1>1, <2>1
<1>3. CASE Adding(u) \cup Encoding(u) # {}
  <2>1. TranslatedUse(u, m) = Valued(n, number)
    BY <1>3 DEF TranslatedUse
  <2>2. c \in classes
    BY <1>3 DEF Adding, Encoding
  <2> HIDE DEF v, c, number, Valued
  <2>3. TranslationOK(n)
    BY <2>2, AddKeepsMappings
  <2> HIDE DEF n
  <2> QED BY <1>1, <2>1, <2>3
<1> QED BY <1>2, <1>3

(* The uses of an instruction, in some order.                              *)
LEMMA SeqOfFinite ==
  ASSUME NEW S, IsFiniteSet(S)
  PROVE  Len(SetToSeq(S)) \in Nat
<1> DEFINE N == Cardinality(S)
<1>1. N \in Nat /\ ExistsBijection(1 .. N, S)
  BY FS_CardinalityType
<1>2. PICK g \in [1 .. N -> S] : \A i, j \in 1 .. N : g[i] = g[j] => i = j
  BY <1>1 DEF ExistsBijection, Bijection, Injection, IsInjective
<1>3. IsInjective(g)
  BY <1>2 DEF IsInjective
<1>4. SetToSeq(S) \in [1 .. N -> S]
  BY <1>2, <1>3 DEF SetToSeq
<1> HIDE DEF N
<1> QED BY <1>1, <1>4

(* However the uses are ordered: each one keeps the mappings.              *)
LEMMA TranslationKeepsMappings ==
  ASSUME NEW slots, IsFiniteSet(slots), MappingsOK(enc, dec)
  PROVE  TranslationOK(Translated(slots))
<1> DEFINE us == SetToSeq(slots)
           N == Len(us)
           base == [val |-> <<>>, enc |-> enc, dec |-> dec]
           use(n) == <<Here[1], Here[2], us[n]>>
           Def(g) == g = [n \in 0 .. N |-> IF n = 0 THEN base ELSE TranslatedUse(use(n), g[n - 1])]
           done == CHOOSE g : Def(g)
           Upto(g, m) == \A n \in 0 .. m : g[n] = IF n = 0 THEN base ELSE TranslatedUse(use(n), g[n - 1])
           S == {m \in Nat : \E g : DOMAIN g = 0 .. m /\ Upto(g, m)}
<1>1. N \in Nat
  BY SeqOfFinite
<1>2. Translated(slots) = done[N]
  BY DEF Translated
<1> HIDE DEF base, use, us, N
<1>3. 0 \in S
  <2> DEFINE g == [n \in 0 .. 0 |-> base]
  <2>1. DOMAIN g = 0 .. 0 /\ Upto(g, 0)
    OBVIOUS
  <2> QED BY <2>1
<1>4. ASSUME NEW m \in Nat, m \in S PROVE m + 1 \in S
  <2>1. PICK h : DOMAIN h = 0 .. m /\ Upto(h, m)
    BY <1>4
  <2> DEFINE g == [n \in 0 .. m + 1 |-> IF n \in 0 .. m THEN h[n] ELSE TranslatedUse(use(n), h[m])]
  <2>2. ASSUME NEW n \in 0 .. m + 1
        PROVE  g[n] = IF n = 0 THEN base ELSE TranslatedUse(use(n), g[n - 1])
    <3>1. CASE n \in 0 .. m
      <4>1. g[n] = h[n] /\ (n # 0 => n - 1 \in 0 .. m)
        BY <3>1
      <4>2. n # 0 => g[n - 1] = h[n - 1]
        BY <4>1
      <4> QED BY <2>1, <3>1, <4>1, <4>2
    <3>2. CASE n = m + 1
      <4>1. n \notin 0 .. m /\ n # 0 /\ n - 1 = m /\ m \in 0 .. m + 1 /\ m \in 0 .. m
        BY <3>2
      <4>2. g[n] = TranslatedUse(use(n), h[m]) /\ g[n - 1] = h[m]
        BY <4>1
      <4> QED BY <4>1, <4>2
    <3> QED BY <3>1, <3>2
  <2>3. DOMAIN g = 0 .. m + 1
    OBVIOUS
  <2> HIDE DEF g
  <2>4. Upto(g, m + 1)
    BY <2>2
  <2> QED BY <2>3, <2>4
<1>5. \E g : Def(g)
  <2>1. N \in S
    <3> HIDE DEF S
    <3> QED BY <1>1, <1>3, <1>4, SetInduction
  <2>2. PICK h : DOMAIN h = 0 .. N /\ Upto(h, N)
    BY <2>1
  <2> DEFINE g == [n \in 0 .. N |-> h[n]]
  <2>3. ASSUME NEW n \in 0 .. N
        PROVE  g[n] = IF n = 0 THEN base ELSE TranslatedUse(use(n), g[n - 1])
    <3>1. n # 0 => n - 1 \in 0 .. N
      BY <1>1
    <3>2. g[n] = h[n] /\ (n # 0 => g[n - 1] = h[n - 1])
      BY <3>1
    <3> QED BY <2>2, <3>2
  <2>4. Def(g)
    BY <2>3
  <2> QED BY <2>4
<1>6. Def(done)
  BY <1>5
<1> HIDE DEF done
<1>7. \A n \in 0 .. N : done[n] = IF n = 0 THEN base ELSE TranslatedUse(use(n), done[n - 1])
  BY <1>6
<1> DEFINE K == {n \in Nat : n <= N => TranslationOK(done[n])}
<1>8. 0 \in K
  <2>1. done[0] = base
    BY <1>1, <1>7
  <2>2. {"val", "enc", "dec"} \subseteq DOMAIN base /\ base.enc = enc /\ base.dec = dec
    BY DEF base
  <2>3. TranslationOK(base)
    BY <2>2 DEF TranslationOK
  <2> QED BY <2>1, <2>3
<1>9. ASSUME NEW n \in Nat, n \in K PROVE n + 1 \in K
  <2> SUFFICES ASSUME n + 1 <= N PROVE TranslationOK(done[n + 1])
    OBVIOUS
  <2>1. n + 1 \in 0 .. N /\ n + 1 # 0 /\ n + 1 - 1 = n
    BY <1>1
  <2>2. done[n + 1] = TranslatedUse(use(n + 1), done[n])
    BY <1>7, <2>1
  <2>3. TranslationOK(done[n])
    BY <1>1, <1>9
  <2> QED BY <2>2, <2>3, UseKeepsMappings
<1>10. N \in K
  <2> HIDE DEF K
  <2> QED BY <1>1, <1>8, <1>9, SetInduction
<1> QED BY <1>1, <1>2, <1>10

-----------------------------------------------------------------------------
(* Code and the functions that run                                         *)

(* What EnumProgramsAreWhole says of the code of one program.              *)
CodeOK(q) ==
  \A F \in DOMAIN q.code :
    /\ Len(q.code[F]) \in Nat \ {0} /\ DOMAIN q.code[F] = 1 .. Len(q.code[F])
    /\ q.code[F][Len(q.code[F])].op = "ret"

SlotsOK(q) ==
  \A F \in DOMAIN q.code : \A n \in DOMAIN q.code[F] :
    /\ Len(q.code[F][n].index) \in Nat
    /\ DOMAIN q.code[F][n].index = 1 .. Len(q.code[F][n].index)
    /\ q.code[F][n].op = "fold" =>
         /\ q.code[F][n].def \in DOMAIN q.code
         /\ Len(q.fold[q.code[F][n].def].passed) \in Nat
         /\ DOMAIN q.fold[q.code[F][n].def].passed = 1 .. Len(q.fold[q.code[F][n].def].passed)

(* The assumption about programs, for one of them.                         *)
LEMMA ProgramIsWhole ==
  ASSUME NEW q \in EnumPrograms
  PROVE  "main" \in DOMAIN q.code /\ CodeOK(q) /\ SlotsOK(q)
<1>1. "main" \in DOMAIN q.code
  BY EnumProgramsAreWhole
<1>2. CodeOK(q)
  BY EnumProgramsAreWhole DEF CodeOK
<1>3. SlotsOK(q)
  <2> SUFFICES ASSUME NEW F \in DOMAIN q.code, NEW n \in DOMAIN q.code[F]
               PROVE  LET i == q.code[F][n] IN
                      /\ Len(i.index) \in Nat /\ DOMAIN i.index = 1 .. Len(i.index)
                      /\ i.op = "fold" =>
                           /\ i.def \in DOMAIN q.code
                           /\ Len(q.fold[i.def].passed) \in Nat
                           /\ DOMAIN q.fold[i.def].passed = 1 .. Len(q.fold[i.def].passed)
    BY DEF SlotsOK
  <2> QED BY EnumProgramsAreWhole
<1> QED BY <1>1, <1>2, <1>3

(* An instruction has finitely many operands.                              *)
LEMMA SlotsAreFinite ==
  ASSUME p \in EnumPrograms, NEW F \in DOMAIN p.code, NEW n \in DOMAIN p.code[F]
  PROVE  IsFiniteSet(Slots(p.code[F][n]))
<1> DEFINE i == p.code[F][n]
           L == Len(i.index)
           M == Len(Body(i).passed)
           indices == IF i.op = "alloc" THEN {} ELSE DOMAIN i.index
           direct == {s \in {Obj, Val} : Operand(i, s) # Null /\ i.op \notin {"alloc", "join"}
                                           /\ (i.op = "retphi" => s = Obj)}
           closed == IF i.op = "fold" THEN {Closed(j) : j \in DOMAIN Body(i).passed} ELSE {}
<1>1. L \in Nat /\ DOMAIN i.index = 1 .. L
  BY ProgramIsWhole DEF SlotsOK
<1>2. i.op = "fold" => M \in Nat /\ DOMAIN Body(i).passed = 1 .. M
  BY ProgramIsWhole DEF SlotsOK, Body
<1>3. Slots(i) = indices \cup direct \cup closed
  BY DEF Slots
<1> HIDE DEF i
<1>4. IsFiniteSet(indices)
  <2>1. IsFiniteSet(1 .. L)
    BY <1>1, FS_Interval
  <2>2. indices \in SUBSET (1 .. L)
    BY <1>1
  <2> QED BY <2>1, <2>2, FS_Subset
<1>5. IsFiniteSet(direct)
  <2>1. IsFiniteSet({Obj} \cup {Val})
    BY FS_Singleton, FS_AddElement
  <2>2. direct \in SUBSET ({Obj} \cup {Val})
    OBVIOUS
  <2> QED BY <2>1, <2>2, FS_Subset
<1>6. IsFiniteSet(closed)
  <2>1. CASE i.op = "fold"
    <3>1. IsFiniteSet(-1 - M .. -2)
      BY <1>2, <2>1, FS_Interval
    <3>2. \A j \in 1 .. M : -1 - j \in -1 - M .. -2
      BY <1>2, <2>1
    <3>3. closed \in SUBSET (-1 - M .. -2)
      BY <1>2, <2>1, <3>2 DEF Closed
    <3> QED BY <3>1, <3>3, FS_Subset
  <2>2. CASE i.op # "fold"
    BY <2>2, FS_EmptySet
  <2> QED BY <2>1, <2>2
<1> HIDE DEF indices, direct, closed
<1>7. IsFiniteSet(indices \cup direct)
  BY <1>4, <1>5, FS_Union
<1> QED BY <1>3, <1>6, <1>7, FS_Union DEF i

(* The last place of a stack, or one below it.                             *)
LEMMA LastOrBefore ==
  ASSUME NEW n \in Nat, NEW k \in 1 .. n
  PROVE  k = n \/ k \in 1 .. n - 1
OBVIOUS

(* The function at the top goes on to a next line that it has.             *)
LEMMA StackAdvances ==
  ASSUME NEW q, CodeOK(q), NEW s, StackOK(q.code, s),
         ~(s[Len(s)].line = Len(q.code[s[Len(s)].fun]))
  PROVE  StackOK(q.code, [s EXCEPT ![Len(s)].line = @ + 1])
<1> DEFINE N == Len(s)
           top == s[N]
           next == [top EXCEPT !.line = @ + 1]
           after == [s EXCEPT ![N] = next]
<1>1. PICK S : s \in Seq(S)
  BY DEF StackOK
<1>2. N \in Nat \ {0} /\ DOMAIN s = 1 .. N /\ N \in 1 .. N
  BY <1>1 DEF StackOK
<1>3. FrameOK(q.code, top)
  BY <1>2 DEF StackOK
<1>4. FrameOK(q.code, next)
  <2>1. {"fun", "line"} \subseteq DOMAIN next /\ next.fun = top.fun /\ next.line = top.line + 1
    BY <1>3 DEF FrameOK
  <2>2. /\ Len(q.code[top.fun]) \in Nat /\ DOMAIN q.code[top.fun] = 1 .. Len(q.code[top.fun])
        /\ top.line \in DOMAIN q.code[top.fun] /\ top.line # Len(q.code[top.fun])
    BY <1>3 DEF FrameOK, CodeOK
  <2>3. top.line + 1 \in DOMAIN q.code[top.fun]
    BY <2>2
  <2> HIDE DEF next
  <2> QED BY <1>3, <2>1, <2>3 DEF FrameOK
<1> HIDE DEF next
<1>5. after \in Seq(S \cup {next}) /\ Len(after) = N /\ DOMAIN after = 1 .. N
  BY <1>1, <1>2
<1>6. after[N] = next /\ \A k \in 1 .. N - 1 : after[k] = s[k]
  BY <1>2
<1> HIDE DEF after
<1>7. \A k \in 1 .. N : k = N \/ k \in 1 .. N - 1
  BY <1>2, LastOrBefore
<1>8. \A k \in DOMAIN after : FrameOK(q.code, after[k])
  BY <1>2, <1>4, <1>5, <1>6, <1>7 DEF StackOK
<1>9. \A k \in 1 .. Len(after) - 1 : AtFold(q.code, after[k])
  BY <1>5, <1>6 DEF StackOK
<1>10. StackOK(q.code, after)
  BY <1>2, <1>5, <1>8, <1>9 DEF StackOK
<1> QED BY <1>10 DEF after, next

(* A body comes above the fold that runs it.                               *)
LEMMA StackPushes ==
  ASSUME NEW q, NEW s, StackOK(q.code, s), AtFold(q.code, s[Len(s)]), NEW f, FrameOK(q.code, f)
  PROVE  StackOK(q.code, Append(s, f))
<1> DEFINE N == Len(s)
           after == Append(s, f)
<1>1. PICK S : s \in Seq(S)
  BY DEF StackOK
<1>2. N \in Nat \ {0} /\ DOMAIN s = 1 .. N
  BY <1>1 DEF StackOK
<1>3. s \in Seq(S \cup {f})
  BY <1>1
<1>4. after \in Seq(S \cup {f}) /\ Len(after) = N + 1 /\ DOMAIN after = 1 .. N + 1
  BY <1>3
<1>5. after[N + 1] = f /\ \A k \in 1 .. N : after[k] = s[k]
  BY <1>3
<1> HIDE DEF after
<1>6. \A k \in 1 .. N + 1 : k = N + 1 \/ k \in 1 .. N
  BY <1>2
<1>7. \A k \in DOMAIN after : FrameOK(q.code, after[k])
  BY <1>2, <1>4, <1>5, <1>6 DEF StackOK
<1>8. \A k \in 1 .. N : k = N \/ k \in 1 .. N - 1
  BY <1>2, LastOrBefore
<1>9. \A k \in 1 .. Len(after) - 1 : AtFold(q.code, after[k])
  <2>1. Len(after) - 1 = N
    BY <1>2, <1>4
  <2> QED BY <1>5, <1>8, <2>1 DEF StackOK
<1>10. after # <<>>
  BY <1>2, <1>4
<1> QED BY <1>4, <1>7, <1>9, <1>10 DEF StackOK, after

(* What returns is above a fold.                                           *)
LEMMA StackPops ==
  ASSUME NEW q, NEW s, StackOK(q.code, s), Len(s) > 1
  PROVE  StackOK(q.code, Front(s)) /\ AtFold(q.code, Front(s)[Len(Front(s))])
<1> DEFINE N == Len(s)
           after == Front(s)
<1>1. PICK S : s \in Seq(S)
  BY DEF StackOK
<1>2. N \in Nat /\ N > 1 /\ DOMAIN s = 1 .. N
  BY <1>1
<1>3. after \in Seq(S) /\ Len(after) = N - 1 /\ DOMAIN after = 1 .. N - 1
  BY <1>1, <1>2 DEF Front
<1>4. \A k \in 1 .. N - 1 : after[k] = s[k]
  BY <1>1, <1>2 DEF Front
<1> HIDE DEF after
<1>5. \A k \in 1 .. N - 1 : k \in 1 .. N
  BY <1>2
<1>6. \A k \in DOMAIN after : FrameOK(q.code, after[k])
  BY <1>2, <1>3, <1>4, <1>5 DEF StackOK
<1>7. \A k \in 1 .. N - 1 : AtFold(q.code, after[k])
  BY <1>4 DEF StackOK
<1>8. N - 1 \in 1 .. N - 1 /\ \A k \in 1 .. (N - 1) - 1 : k \in 1 .. N - 1
  BY <1>2
<1>9. \A k \in 1 .. Len(after) - 1 : AtFold(q.code, after[k])
  BY <1>3, <1>7, <1>8
<1>10. after # <<>>
  BY <1>2, <1>3
<1> QED BY <1>3, <1>6, <1>7, <1>8, <1>9, <1>10 DEF StackOK, after

-----------------------------------------------------------------------------
(* The theorem                                                             *)

(* Where a function runs, it is at a line of its own, and the uses of its  *)
(* instruction are finitely many.                                          *)
LEMMA HereIsALine ==
  ASSUME EnumInv, Optimized_
  PROVE  /\ Len(frames) \in Nat \ {0} /\ Top = frames[Len(frames)]
         /\ FrameOK(p.code, Top) /\ Instr = p.code[Top.fun][Top.line]
         /\ IsFiniteSet(Slots(Instr))
<1>1. StackOK(p.code, frames) /\ p \in EnumPrograms
  BY DEF EnumInv
<1>2. PICK S : frames \in Seq(S)
  BY <1>1 DEF StackOK
<1>3. Len(frames) \in Nat \ {0} /\ Len(frames) \in DOMAIN frames /\ Top = frames[Len(frames)]
  BY <1>1, <1>2 DEF StackOK, Top, Last
<1>4. FrameOK(p.code, Top)
  BY <1>1, <1>3 DEF StackOK
<1>5. Instr = p.code[Top.fun][Top.line]
  BY DEF Instr, At, Here
<1>6. IsFiniteSet(Slots(p.code[Top.fun][Top.line]))
  BY <1>1, <1>4, SlotsAreFinite DEF FrameOK
<1> QED BY <1>3, <1>4, <1>5, <1>6

(* An instruction that does not return is not the last.                    *)
LEMMA NextLine ==
  ASSUME EnumInv, Optimized_, Instr.op # "ret" \/ Top.line < Len(p.code[Top.fun])
  PROVE  StackOK(p.code, Advanced)
<1>1. CodeOK(p) /\ StackOK(p.code, frames)
  BY ProgramIsWhole DEF EnumInv
<1>2. Top.line # Len(p.code[Top.fun])
  <2>1. /\ Len(p.code[Top.fun]) \in Nat
        /\ p.code[Top.fun][Len(p.code[Top.fun])].op = "ret"
    BY <1>1, HereIsALine DEF CodeOK, FrameOK
  <2> QED BY <2>1, HereIsALine
<1> QED BY <1>1, <1>2, HereIsALine, StackAdvances DEF Advanced

(* What an action leaves alone, and what it must establish.                *)
LEMMA InvAfter ==
  ASSUME EnumInv, Running, StackOK(p.code, frames'),
         MappingsOK(enc', dec')
  PROVE  EnumInv'
<1>1. p' = p /\ classes' = classes /\ plan' = plan
  BY DEF Running, planVars
<1>2. MappingsOK(enc, dec)'
  BY <1>1 DEF MappingsOK, MappingOK, BuildsDecoder
<1>3. StackOK(p.code, frames)'
  BY <1>1
<1> QED BY <1>1, <1>2, <1>3 DEF EnumInv

(* No frame is changed.                                                    *)
LEMMA StackStays ==
  ASSUME EnumInv, Optimized_, frames' = frames
  PROVE  StackOK(p.code, frames')
BY DEF EnumInv

(* No mapping is changed.                                                  *)
LEMMA MappingsStay ==
  ASSUME EnumInv, Optimized_, enc' = enc, dec' = dec
  PROVE  MappingsOK(enc', dec')
BY DEF EnumInv

(* The mappings are those after the uses of an instruction.                *)
LEMMA MappingsOfUses ==
  ASSUME EnumInv, Optimized_, NEW slots, IsFiniteSet(slots), Mappings(Translated(slots))
  PROVE  MappingsOK(enc', dec')
<1>1. TranslationOK(Translated(slots))
  BY TranslationKeepsMappings DEF EnumInv
<1> QED BY <1>1 DEF TranslationOK, Mappings

(* What runs was optimized.                                                *)
LEMMA RunningIsOptimized == Running => Optimized_
BY DEF Running, Optimized_

(* An allocation makes the mappings of its class anew.                     *)
LEMMA AllocateInv == ASSUME EnumInv, Allocate PROVE EnumInv'
<1>1. Running /\ Optimized_ /\ Instr.op = "alloc" /\ frames' = Advanced
  BY RunningIsOptimized DEF Allocate
<1>2. StackOK(p.code, frames')
  BY <1>1, NextLine
<1>3. MappingsOK(enc', dec')
  <2>1. PICK new : /\ enc' = [c \in classes |-> IF c \in new THEN <<>> ELSE enc[c]]
                   /\ dec' = [c \in classes |-> IF c \in new THEN <<>> ELSE dec[c]]
    BY DEF Allocate
  <2>2. \A c \in classes : MappingOK(c, enc[c], dec[c])
    BY <1>1 DEF EnumInv, MappingsOK
  <2>3. \A c \in classes : MappingOK(c, <<>>, <<>>)
    BY EmptyMapping DEF MappingOK
  <2>4. DOMAIN enc' = classes /\ DOMAIN dec' = classes
    BY <2>1
  <2>5. \A c \in classes : \/ enc'[c] = <<>> /\ dec'[c] = <<>>
                           \/ enc'[c] = enc[c] /\ dec'[c] = dec[c]
    BY <2>1
  <2>6. \A c \in classes : MappingOK(c, enc'[c], dec'[c])
    BY <2>2, <2>3, <2>5
  <2> QED BY <2>4, <2>6 DEF MappingsOK
<1> QED BY <1>1, <1>2, <1>3, InvAfter

(* An access, a comparison, a select or a copy.                            *)
LEMMA ComputeInv == ASSUME EnumInv, Compute PROVE EnumInv'
<1> DEFINE m == Translated(Slots(Instr))
<1>1. Running /\ Optimized_ /\ Instr.op # "ret"
  BY RunningIsOptimized DEF Compute, Updates
<1>2. \/ frames' = frames /\ enc' = enc /\ dec' = dec
      \/ Mappings(m) /\ (frames' = frames \/ frames' = Advanced)
  BY DEF Compute, Ends
<1> HIDE DEF m
<1>3. StackOK(p.code, frames')
  BY <1>1, <1>2, NextLine, StackStays
<1>4. MappingsOK(enc', dec')
  BY <1>1, <1>2, HereIsALine, MappingsOfUses, MappingsStay DEF m
<1> QED BY <1>1, <1>3, <1>4, InvAfter

(* A select or a PHI, of which the operand of one edge is translated.      *)
LEMMA JoinInv == ASSUME EnumInv, Join PROVE EnumInv'
<1>1. Running /\ Optimized_ /\ Instr.op # "ret"
  BY RunningIsOptimized DEF Join
<1>2. PICK s \in DOMAIN Instr.index :
        /\ Mappings(Translated(IF Instr.val = "phi" THEN {s} ELSE Slots(Instr)))
        /\ frames' = frames \/ frames' = Advanced
  BY DEF Join, Ends
<1>3. IsFiniteSet(IF Instr.val = "phi" THEN {s} ELSE Slots(Instr))
  BY <1>1, HereIsALine, FS_Singleton
<1>4. StackOK(p.code, frames')
  BY <1>1, <1>2, NextLine, StackStays
<1>5. MappingsOK(enc', dec')
  BY <1>1, <1>2, <1>3, MappingsOfUses
<1> QED BY <1>1, <1>4, <1>5, InvAfter

(* A use by other code.                                                    *)
LEMMA OutputInv == ASSUME EnumInv, Output PROVE EnumInv'
<1>1. Running /\ Optimized_ /\ Instr.op # "ret"
  BY RunningIsOptimized DEF Output
<1>2. enc' = enc /\ dec' = dec /\ (frames' = frames \/ frames' = Advanced)
  BY DEF Output, Ends
<1>3. StackOK(p.code, frames')
  BY <1>1, <1>2, NextLine, StackStays
<1> QED BY <1>1, <1>2, <1>3, MappingsStay, InvAfter

(* The body of a fold begins, for one of its elements.                     *)
Begins(below, F) ==
  \E over, rest : frames' = Append(below, [fun |-> F, line |-> 1, over |-> over, rest |-> rest])

(* An iteration begins the body, or the translation has diverged.          *)
LEMMA IterateBegins ==
  ASSUME NEW below, NEW F, NEW acc, NEW closed, NEW s, NEW t, NEW rest,
         Iterate(below, F, acc, closed, s, t, rest)
  PROVE  frames' = frames \/ Begins(below, F)
BY DEF Iterate, Ends, Begins

(* The body comes above its fold.                                          *)
LEMMA BodyBegins ==
  ASSUME p \in EnumPrograms, NEW s, StackOK(p.code, s), AtFold(p.code, s[Len(s)]),
         NEW F \in Funs, Begins(s, F)
  PROVE  StackOK(p.code, frames')
<1>1. PICK over, rest : frames' = Append(s, [fun |-> F, line |-> 1, over |-> over, rest |-> rest])
  BY DEF Begins
<1> DEFINE f == [fun |-> F, line |-> 1, over |-> over, rest |-> rest]
<1>2. {"fun", "line"} \subseteq DOMAIN f /\ f.fun = F /\ f.line = 1
  OBVIOUS
<1>3. 1 \in DOMAIN p.code[F]
  BY ProgramIsWhole DEF CodeOK, Funs
<1>4. FrameOK(p.code, f)
  BY <1>2, <1>3 DEF FrameOK, Funs
<1> HIDE DEF f
<1>5. StackOK(p.code, Append(s, f))
  BY <1>4, StackPushes
<1> QED BY <1>1, <1>5 DEF f

(* A fold, which runs its body or passes over nothing.                     *)
LEMMA FoldInv == ASSUME EnumInv, Fold PROVE EnumInv'
<1> DEFINE m == Translated(Slots(Instr))
<1>1. Running /\ Optimized_ /\ Instr.op = "fold"
  BY RunningIsOptimized DEF Fold
<1>2. \/ frames' = frames /\ enc' = enc /\ dec' = dec
      \/ /\ Mappings(m)
         /\ \/ frames' = frames \/ frames' = Advanced
            \/ \E acc, closed, s, t, rest : Iterate(frames, Instr.def, acc, closed, s, t, rest)
  BY DEF Fold, Ends
<1> HIDE DEF m
<1>3. frames' = frames \/ frames' = Advanced \/ Begins(frames, Instr.def)
  BY <1>2, IterateBegins
<1>4. Instr.def \in Funs
  BY <1>1, HereIsALine, ProgramIsWhole DEF SlotsOK, Funs, FrameOK, EnumInv
<1>5. StackOK(p.code, frames) /\ AtFold(p.code, frames[Len(frames)]) /\ p \in EnumPrograms
  BY <1>1, HereIsALine DEF EnumInv, AtFold
<1>6. StackOK(p.code, frames')
  BY <1>1, <1>3, <1>4, <1>5, NextLine, StackStays, BodyBegins
<1>7. MappingsOK(enc', dec')
  BY <1>1, <1>2, HereIsALine, MappingsOfUses, MappingsStay DEF m
<1> QED BY <1>1, <1>6, <1>7, InvAfter

(* A return of a body: the next iteration, or on after the fold.           *)
LEMMA ReturnInv == ASSUME EnumInv, Return PROVE EnumInv'
<1> DEFINE below == Front(frames)
           after == [below EXCEPT ![Len(below)].line = @ + 1]
<1>1. Running /\ Optimized_ /\ Len(frames) > 1
  BY RunningIsOptimized DEF Return
<1>2. /\ Mappings(Translated({1}))
      /\ \/ frames' = frames \/ frames' = after
         \/ \E acc, closed, s, t, rest : Iterate(below, Top.fun, acc, closed, s, t, rest)
  BY DEF Return, Ends
<1>3. StackOK(p.code, below) /\ AtFold(p.code, below[Len(below)]) /\ p \in EnumPrograms
  BY <1>1, StackPops DEF EnumInv
<1> HIDE DEF below
<1>4. frames' = frames \/ frames' = after \/ Begins(below, Top.fun)
  <2> HIDE DEF after
  <2> QED BY <1>2, IterateBegins
<1>5. Top.fun \in Funs
  BY <1>1, HereIsALine DEF FrameOK, Funs
<1>6. StackOK(p.code, after)
  <2>1. PICK S : below \in Seq(S)
    BY <1>3 DEF StackOK
  <2>2. FrameOK(p.code, below[Len(below)])
    BY <1>3, <2>1 DEF StackOK
  <2>3. below[Len(below)].line # Len(p.code[below[Len(below)].fun])
    BY <1>3, <2>2, ProgramIsWhole DEF AtFold, CodeOK, FrameOK
  <2> QED BY <1>3, <2>3, ProgramIsWhole, StackAdvances
<1> HIDE DEF after
<1>7. StackOK(p.code, frames')
  BY <1>1, <1>3, <1>4, <1>5, <1>6, StackStays, BodyBegins
<1>8. MappingsOK(enc', dec')
  BY <1>1, <1>2, MappingsOfUses, FS_Singleton
<1> QED BY <1>1, <1>7, <1>8, InvAfter

(* What translates nothing.                                                *)
LEMMA OtherInv == ASSUME EnumInv, PassBy \/ RetPhi \/ Finish PROVE EnumInv'
<1>1. Running /\ Optimized_ /\ enc' = enc /\ dec' = dec
  BY RunningIsOptimized DEF PassBy, RetPhi, Finish
<1>2. \/ frames' = frames
      \/ /\ frames' = Advanced
         /\ Instr.op # "ret" \/ Top.line < Len(p.code[Top.fun])
  <2>1. CASE PassBy
    BY <2>1 DEF PassBy
  <2>2. CASE RetPhi
    BY <2>2 DEF RetPhi
  <2>3. CASE Finish
    BY <2>3 DEF Finish, Ends
  <2> QED BY <2>1, <2>2, <2>3
<1>3. StackOK(p.code, frames')
  BY <1>1, <1>2, NextLine, StackStays
<1> QED BY <1>1, <1>3, MappingsStay, InvAfter

(* The run begins with empty mappings, in main.                            *)
LEMMA StartInv == ASSUME EnumInv, Start PROVE EnumInv'
<1>1. p' = p /\ classes' = classes /\ plan' = plan
  BY DEF Start, planVars
<1>2. enc' = [c \in classes |-> <<>>] /\ dec' = [c \in classes |-> <<>>]
  BY DEF Start
<1>3. MappingsOK(enc, dec)'
  <2>1. \A c \in classes' : MappingOK(c, <<>>, <<>>)'
    BY EmptyMapping DEF MappingOK
  <2>2. DOMAIN enc' = classes' /\ DOMAIN dec' = classes'
        /\ \A c \in classes' : enc'[c] = <<>> /\ dec'[c] = <<>>
    BY <1>1, <1>2
  <2> QED BY <2>1, <2>2 DEF MappingsOK, MappingOK
<1>4. StackOK(p.code, frames)'
  <2> DEFINE f == [fun |-> "main", line |-> 1, rest |-> {}]
  <2>1. frames' = <<f>>
    BY DEF Start
  <2>2. {"fun", "line"} \subseteq DOMAIN f /\ f.fun = "main" /\ f.line = 1
    OBVIOUS
  <2>3. FrameOK(p.code, f)
    BY <2>2, ProgramIsWhole DEF FrameOK, CodeOK, EnumInv
  <2> HIDE DEF f
  <2>4. <<f>> \in Seq({f}) /\ <<f>> # <<>> /\ Len(<<f>>) = 1 /\ DOMAIN <<f>> = 1 .. 1 /\ <<f>>[1] = f
    OBVIOUS
  <2>5. StackOK(p.code, <<f>>)
    <3>1. 1 .. 1 - 1 = {} /\ \A k \in 1 .. 1 : k = 1
      OBVIOUS
    <3> QED BY <2>3, <2>4, <3>1 DEF StackOK
  <2> QED BY <1>1, <2>1, <2>5
<1> QED BY <1>1, <1>3, <1>4 DEF EnumInv

(* What the pass does before.                                              *)
LEMMA CompileInv ==
  ASSUME EnumInv, (\E c \in classes : Gather(c)) \/ Forward \/ Optimize
  PROVE  EnumInv'
<1>1. p' = p /\ status = "optimize" /\ status' = status
  BY DEF Gather, Forward, Optimize
<1> QED BY <1>1 DEF EnumInv, Optimized_

(* The invariant says more than the property.                              *)
LEMMA EnumInvImpliesMappings == EnumInv => MappingsAreInverse
<1> SUFFICES ASSUME EnumInv, Optimized_, NEW c \in classes
             PROVE  /\ {enc[c][k] : k \in DOMAIN enc[c]} = 0 .. Cardinality(DOMAIN enc[c]) - 1
                    /\ BuildsDecoder(c) => /\ Len(dec[c]) = Cardinality(DOMAIN enc[c])
                                            /\ \A k \in DOMAIN enc[c] : dec[c][enc[c][k] + 1] = k
  BY DEF MappingsAreInverse
<1>1. MappingOK(c, enc[c], dec[c])
  BY DEF EnumInv, MappingsOK
<1> QED BY <1>1 DEF MappingOK, Onto, Inverts, Numbers

(* The identifiers of a class are 0, 1, ... without a gap or a double, and *)
(* the decoder, where it is built, is the inverse of the encoder.          *)
THEOREM MappingsStayInverse == Spec => []MappingsAreInverse
<1>1. Init => EnumInv
  BY DEF Init, EnumInv, Optimized_
<1>2. EnumInv /\ [Next]_enumVars => EnumInv'
  <2> SUFFICES ASSUME EnumInv, [Next]_enumVars PROVE EnumInv'
    OBVIOUS
  <2>1. CASE (\E c \in classes : Gather(c)) \/ Forward \/ Optimize
    BY <2>1, CompileInv
  <2>2. CASE Start
    BY <2>2, StartInv
  <2>3. CASE Allocate
    BY <2>3, AllocateInv
  <2>4. CASE Compute
    BY <2>4, ComputeInv
  <2>5. CASE Join
    BY <2>5, JoinInv
  <2>6. CASE Output
    BY <2>6, OutputInv
  <2>7. CASE Fold
    BY <2>7, FoldInv
  <2>8. CASE Return
    BY <2>8, ReturnInv
  <2>9. CASE PassBy \/ RetPhi \/ Finish
    BY <2>9, OtherInv
  <2>10. CASE UNCHANGED enumVars
    BY <2>10 DEF enumVars, planVars, runVars, EnumInv, Optimized_, MappingsOK, MappingOK, BuildsDecoder
  <2> QED BY <2>1, <2>2, <2>3, <2>4, <2>5, <2>6, <2>7, <2>8, <2>9, <2>10 DEF Next
<1> QED BY <1>1, <1>2, EnumInvImpliesMappings, PTL DEF Spec

(***************************************************************************)
(* The promotion of a global.                                              *)
(***************************************************************************)

(* Code of a whole program calls what the program has, and calls end.      *)
WholeCode ==
  /\ IsFiniteSet(Functions) /\ "main" \in Functions
  /\ \A F \in Functions :
       /\ Len(prog.code[F]) \in Nat \ {0} /\ DOMAIN prog.code[F] = 1 .. Len(prog.code[F])
       /\ prog.code[F][Len(prog.code[F])].op = "ret"
       /\ Callees(F) \subseteq Functions
       /\ \A n \in DOMAIN prog.code[F] :
            prog.code[F][n].op \in {"call", "fold"} => prog.code[F][n].arg \in Callees(F)

Locals == {InitialValue} \cup UNION {{prog.code[F][n].arg : n \in DOMAIN prog.code[F]} : F \in Functions}
Frame == [fun : Functions, line : Nat \ {0}, local : Locals]

(* Every call is of a function below those that are active.                *)
CallsGoDown ==
  \A j, k \in DOMAIN active : j < k => active[k].fun \in Below(active[j].fun, Functions)

(* The value of the global is the local of its owner and of the calls      *)
(* above it, as far as they lie on a path from the owner.                  *)
OwnerHandsDown ==
  owner \in DOMAIN active =>
    /\ active[owner].fun \in Using("store")
    /\ \A k \in DOMAIN active :
         /\ k >= owner /\ (k > owner => active[owner].fun \in paths.all)
         /\ \A j \in owner + 1 .. k : active[j].fun \in paths.inner
         => active[k].local = global

NobodyOwns ==
  owner = 0 => global = InitialValue /\ \A k \in DOMAIN active : active[k].local = InitialValue

PathsAreFound ==
  IF paths = <<>> THEN owner = 0
  ELSE paths = [inner |-> InPath, all |-> InPath \cup Sources, promoted |-> Promotable]

(* The inductive invariant.                                                *)
GlobalInv ==
  /\ WholeCode
  /\ active \in Seq(Frame) /\ owner \in Int /\ owner <= Len(active) /\ owner >= -1
  /\ \A k \in DOMAIN active : active[k].line \in DOMAIN prog.code[active[k].fun]
  /\ CallsGoDown /\ OwnerHandsDown /\ NobodyOwns /\ PathsAreFound
  /\ LoadsSeeTheGlobal

-----------------------------------------------------------------------------
(* What calls reach                                                        *)

(* What Reached holds with a function, it holds with its callees.          *)
ClosedUnder(X, through) == \A F \in X \cap through : Callees(F) \subseteq X

(* Reached is the least set that holds what it starts from and is closed.  *)
LEMMA ReachedIsLeast ==
  ASSUME WholeCode, NEW from \in SUBSET Functions, NEW through
  PROVE  LET all == Reached(from, through) IN
         /\ all \in SUBSET Functions /\ from \subseteq all /\ ClosedUnder(all, through)
         /\ \A X \in SUBSET Functions : from \subseteq X /\ ClosedUnder(X, through) => all \subseteq X
<1> DEFINE D == Functions
           N == Cardinality(D)
           grow == [X \in SUBSET D |-> X \cup UNION {Callees(F) : F \in X \cap through}]
           Def(g) == g = [n \in 0 .. N |->
                            IF n = 0 THEN from
                            ELSE LET near == g[n - 1] IN near \cup UNION {Callees(F) : F \in near \cap through}]
           reach == CHOOSE g : Def(g)
<1>1. IsFiniteSet(D) /\ N \in Nat /\ \A F \in D : Callees(F) \subseteq D
  BY FS_CardinalityType DEF WholeCode
<1>2. GrowsWithin(D, grow)
  BY <1>1 DEF GrowsWithin
<1>3. \E g : Def(g)
  <2> HIDE DEF D, N
  <2>1. from \in SUBSET D
    BY DEF D
  <2>2. PICK g \in [0 .. N -> SUBSET D] : Grows(g, N, from, grow)
    <3> HIDE DEF grow
    <3> QED BY <1>1, <1>2, <2>1, GrowthExists
  <2>3. ASSUME NEW n \in 1 .. N
        PROVE  g[n] = g[n - 1] \cup UNION {Callees(F) : F \in g[n - 1] \cap through}
    <3>1. n - 1 \in 0 .. N
      BY <1>1
    <3>2. g[n - 1] \in SUBSET D
      BY <3>1
    <3>3. g[n] = grow[g[n - 1]]
      BY <2>2 DEF Grows
    <3> QED BY <3>2, <3>3
  <2>4. \A n \in 0 .. N : n # 0 => n \in 1 .. N
    BY <1>1
  <2>5. Def(g)
    BY <2>2, <2>3, <2>4 DEF Grows
  <2> QED BY <2>5
<1>4. Def(reach)
  BY <1>3
<1>5. Reached(from, through) = reach[N]
  BY DEF Reached
<1> HIDE DEF reach
<1> DEFINE S == {n \in Nat : n <= N => reach[n] \in SUBSET D}
<1>6. reach[0] = from
  BY <1>1, <1>4
<1>7. ASSUME NEW n \in Nat, n + 1 <= N
      PROVE  reach[n + 1] = reach[n] \cup UNION {Callees(F) : F \in reach[n] \cap through}
  <2>1. n + 1 \in 0 .. N /\ n + 1 # 0 /\ n + 1 - 1 = n
    BY <1>1, <1>7
  <2> DEFINE m == n + 1
  <2>2. m \in 0 .. N /\ m # 0 /\ m - 1 = n
    BY <2>1
  <2> HIDE DEF m, D, N, grow
  <2>3. reach[m] = reach[m - 1] \cup UNION {Callees(F) : F \in reach[m - 1] \cap through}
    BY <1>4, <2>2
  <2> QED BY <2>2, <2>3 DEF m
<1>8. \A n \in 0 .. N : reach[n] \in SUBSET D
  <2>1. 0 \in S
    BY <1>6
  <2>2. ASSUME NEW n \in Nat, n \in S PROVE n + 1 \in S
    <3> SUFFICES ASSUME n + 1 <= N PROVE reach[n + 1] \in SUBSET D
      OBVIOUS
    <3>1. reach[n] \in SUBSET D
      BY <1>1, <2>2
    <3> QED BY <1>1, <1>7, <3>1
  <2> HIDE DEF S
  <2>3. Nat \subseteq S
    BY <2>1, <2>2, SetInduction
  <2> QED BY <1>1, <2>3 DEF S
<1>9. Grows(reach, N, from, grow)
  <2>1. ASSUME NEW n \in 1 .. N PROVE reach[n] = grow[reach[n - 1]]
    <3>1. n - 1 \in Nat /\ n - 1 \in 0 .. N /\ n - 1 + 1 = n
      BY <1>1
    <3>2. reach[n] = reach[n - 1] \cup UNION {Callees(F) : F \in reach[n - 1] \cap through}
      BY <1>1, <1>7, <3>1
    <3> QED BY <1>8, <3>1, <3>2
  <2> QED BY <1>6, <2>1 DEF Grows
<1>10. reach[N] \in SUBSET D /\ from \subseteq reach[N] /\ grow[reach[N]] = reach[N]
  <2> HIDE DEF grow, D
  <2>1. from \in SUBSET D
    BY DEF D
  <2>2. Grows(reach, Cardinality(D), from, grow) /\ IsFiniteSet(D)
    BY <1>1, <1>9
  <2>3. reach[Cardinality(D)] \in SUBSET D /\ from \subseteq reach[Cardinality(D)]
    BY <1>2, <2>1, <2>2, IterationsClose
  <2>4. grow[reach[Cardinality(D)]] = reach[Cardinality(D)]
    BY <1>2, <2>1, <2>2, IterationsClose
  <2> QED BY <2>3, <2>4
<1>11. ClosedUnder(reach[N], through)
  BY <1>10 DEF ClosedUnder
<1>12. ASSUME NEW X \in SUBSET D, from \subseteq X, ClosedUnder(X, through) PROVE reach[N] \subseteq X
  <2>1. HoldsGrowth(X, D, from, grow)
    BY <1>12 DEF HoldsGrowth, ClosedUnder
  <2> HIDE DEF grow, D, N
  <2>2. from \in SUBSET D
    BY DEF D
  <2> QED BY <1>1, <1>2, <1>9, <2>1, <2>2, IterationsStayWithin
<1> QED BY <1>5, <1>10, <1>11, <1>12

(* Below a function: its callees, and the callees of what is below it.     *)
LEMMA BelowFacts ==
  ASSUME WholeCode, NEW F \in Functions
  PROVE  LET below == Below(F, Functions) IN
         /\ below \in SUBSET Functions /\ Callees(F) \subseteq below
         /\ \A H \in below : Callees(H) \subseteq below
<1>1. Callees(F) \in SUBSET Functions
  BY DEF WholeCode
<1>2. /\ Below(F, Functions) \in SUBSET Functions /\ Callees(F) \subseteq Below(F, Functions)
      /\ ClosedUnder(Below(F, Functions), Functions)
  BY <1>1, ReachedIsLeast DEF Below
<1> QED BY <1>2 DEF ClosedUnder

(* A function that calls reach is reached by a path that meets it once: if *)
(* none did, the functions that such paths reach were closed under calls.  *)
LEMMA ReachedByAPath ==
  ASSUME WholeCode, NEW S \in Functions, NEW L \in Below(S, Functions)
  PROVE  L \in Below(S, Functions \ {L})
<1> DEFINE near == Below(S, Functions \ {L})
<1>1. Callees(S) \in SUBSET Functions
  BY DEF WholeCode
<1>2. near \in SUBSET Functions /\ Callees(S) \subseteq near /\ ClosedUnder(near, Functions \ {L})
  BY <1>1, ReachedIsLeast DEF Below
<1>3. \A X \in SUBSET Functions :
        Callees(S) \subseteq X /\ ClosedUnder(X, Functions) => Below(S, Functions) \subseteq X
  BY <1>1, ReachedIsLeast DEF Below
<1> HIDE DEF near
<1>4. CASE L \notin near
  <2>1. ClosedUnder(near, Functions)
    BY <1>2, <1>4 DEF ClosedUnder
  <2> QED BY <1>2, <1>3, <1>4, <2>1
<1> QED BY <1>4 DEF near

(* All that lies between a function that stores and one below it that      *)
(* loads is part of a path, both ends included.                            *)
LEMMA BetweenIsInPath ==
  ASSUME WholeCode, PathsAreAll,
         NEW S \in Using("store"), NEW L \in Using("load"), L \in Below(S, Functions)
  PROVE  /\ S \in Sources /\ L \in InPath
         /\ \A F \in Below(S, Functions) : L \in Below(F, Functions) => F \in InPath
<1>1. S \in Functions /\ L \in Functions
  BY DEF Using
<1>2. L \in Below(S, Functions \ {L})
  BY <1>1, ReachedByAPath
<1>3. L \in PathFunctions(S, L)
  BY <1>2 DEF PathFunctions
<1> QED BY <1>3 DEF Sources, InPath, PathsAreAll

-----------------------------------------------------------------------------
(* The frames                                                              *)

(* A step to the next line, from one that does not return, stays in the    *)
(* code and changes nothing else.                                          *)
LEMMA Advancing ==
  ASSUME GlobalInv, active # <<>>, NextInstr.op # "ret"
  PROVE  /\ SteppedOn \in Seq(Frame) /\ Len(SteppedOn) = Len(active)
         /\ \A k \in DOMAIN active :
              /\ SteppedOn[k].fun = active[k].fun /\ SteppedOn[k].local = active[k].local
              /\ SteppedOn[k].line \in DOMAIN prog.code[active[k].fun]
<1> DEFINE n == Len(active)
<1>1. active \in Seq(Frame) /\ n \in Nat \ {0} /\ DOMAIN active = 1 .. n /\ \A k \in 1 .. n : active[k] \in Frame
  BY DEF GlobalInv
<1>2. n \in 1 .. n
  BY <1>1
<1>3. TopFrame = active[n] /\ TopFrame \in Frame
  BY <1>1, <1>2 DEF TopFrame, Last
<1> DEFINE F == TopFrame.fun
<1>4. /\ F \in Functions /\ TopFrame.line \in DOMAIN prog.code[F]
      /\ DOMAIN prog.code[F] = 1 .. Len(prog.code[F]) /\ Len(prog.code[F]) \in Nat
      /\ prog.code[F][Len(prog.code[F])].op = "ret"
  BY <1>1, <1>2, <1>3 DEF GlobalInv, WholeCode, Frame
<1>5. TopFrame.line # Len(prog.code[F])
  BY <1>4 DEF NextInstr
<1>6. TopFrame.line + 1 \in DOMAIN prog.code[F] /\ TopFrame.line + 1 \in Nat \ {0}
  BY <1>4, <1>5
<1>7. SteppedOn = [k \in 1 .. n |-> IF k = n THEN [active[n] EXCEPT !.line = @ + 1] ELSE active[k]]
  BY <1>1, <1>2 DEF SteppedOn
<1>8. ASSUME NEW k \in 1 .. n
      PROVE  /\ SteppedOn[k] \in Frame
             /\ SteppedOn[k].fun = active[k].fun /\ SteppedOn[k].local = active[k].local
             /\ SteppedOn[k].line = IF k = n THEN TopFrame.line + 1 ELSE active[k].line
  BY <1>1, <1>3, <1>6, <1>7 DEF Frame
<1>9. SteppedOn \in Seq(Frame) /\ Len(SteppedOn) = n
  <2>1. DOMAIN SteppedOn = 1 .. n
    BY <1>7
  <2> QED BY <1>1, <1>7, <1>8, <2>1
<1>10. \A k \in 1 .. n : SteppedOn[k].line \in DOMAIN prog.code[active[k].fun]
  BY <1>1, <1>3, <1>6, <1>8 DEF GlobalInv
<1> QED BY <1>1, <1>8, <1>9, <1>10

-----------------------------------------------------------------------------
(* The steps                                                               *)

(* The program stays the same.                                             *)
LEMMA SameProgram ==
  ASSUME prog' = prog
  PROVE  /\ WholeCode' = WholeCode /\ Functions' = Functions /\ Frame' = Frame
         /\ InPath' = InPath /\ Sources' = Sources /\ Promotable' = Promotable /\ PathsAreAll' = PathsAreAll
         /\ \A F : Below(F, Functions)' = Below(F, Functions)
         /\ \A op : Using(op)' = Using(op)
<1>1. Functions' = Functions /\ (\A F : Callees(F)' = Callees(F)) /\ \A op : Using(op)' = Using(op)
  BY DEF Functions, Callees, SingleFold, Using
<1>2. \A F, T : Below(F, T)' = Below(F, T)
  BY DEF Below, Reached, Functions, Callees, SingleFold
<1>3. \A S, L : PathFunctions(S, L)' = PathFunctions(S, L)
  BY <1>1, <1>2 DEF PathFunctions
<1>4. InPath' = InPath /\ Sources' = Sources /\ Promotable' = Promotable
  <2>1. InPath' = InPath /\ Sources' = Sources
    BY <1>1, <1>3 DEF InPath, Sources
  <2>2. CalledExternally' = CalledExternally /\ ToVersion' = ToVersion
    BY DEF CalledExternally, ToVersion, HasUnknownCaller, SingleFold, Functions
  <2> QED BY <2>1, <2>2 DEF Promotable
<1>5. PathsAreAll' = PathsAreAll
  BY <1>1, <1>2, <1>4 DEF PathsAreAll
<1>6. WholeCode' = WholeCode
  BY <1>1 DEF WholeCode
<1>7. Frame' = Frame
  BY <1>1 DEF Frame, Locals
<1> QED BY <1>1, <1>2, <1>4, <1>5, <1>6, <1>7

(* The program starts without a value of the global but its initializer.   *)
LEMMA StartsInv == ProgramsAreWhole /\ GInit => GlobalInv
<1> SUFFICES ASSUME ProgramsAreWhole, GInit PROVE GlobalInv
  OBVIOUS
<1>1. WholeCode
  <2>1. /\ IsFiniteSet(Functions) /\ "main" \in Functions
        /\ \A F \in Functions :
             /\ Len(prog.code[F]) \in Nat \ {0} /\ DOMAIN prog.code[F] = 1 .. Len(prog.code[F])
             /\ prog.code[F][Len(prog.code[F])].op = "ret"
    BY DEF GInit, ProgramsAreWhole, Functions
  <2>2. ASSUME NEW F \in Functions
        PROVE  Callees(F) \subseteq Functions
    BY <2>2 DEF GInit, ProgramsAreWhole, Callees, Functions
  <2>3. ASSUME NEW F \in Functions, NEW n \in DOMAIN prog.code[F], prog.code[F][n].op = "fold"
        PROVE  <<F, n>> \in SingleFold(prog.code[F][n].arg)
    <3>1. HasOwnBody(prog, F, n)
      BY <2>3 DEF GInit, ProgramsAreWhole, Functions
    <3> QED BY <3>1 DEF HasOwnBody, SingleFold
  <2>4. ASSUME NEW F \in Functions, NEW n \in DOMAIN prog.code[F], prog.code[F][n].op \in {"call", "fold"}
        PROVE  prog.code[F][n].arg \in Callees(F)
    BY <2>3, <2>4 DEF Callees
  <2> QED BY <2>1, <2>2, <2>4 DEF WholeCode
<1>2. active = <<[fun |-> "main", line |-> 1, local |-> InitialValue]>>
  BY DEF GInit
<1>3. [fun |-> "main", line |-> 1, local |-> InitialValue] \in Frame
  BY <1>1 DEF WholeCode, Frame, Locals
<1>4. /\ active \in Seq(Frame) /\ Len(active) = 1 /\ DOMAIN active = {1}
      /\ active[1].fun = "main" /\ active[1].line = 1 /\ active[1].local = InitialValue
  BY <1>2, <1>3
<1>5. owner = 0 /\ global = InitialValue /\ paths = <<>> /\ seen = <<InitialValue, InitialValue>>
  BY DEF GInit
<1>6. 1 \in DOMAIN prog.code["main"]
  BY <1>1 DEF WholeCode
<1>7. CallsGoDown
  BY <1>4 DEF CallsGoDown
<1>8. OwnerHandsDown /\ NobodyOwns /\ PathsAreFound /\ LoadsSeeTheGlobal
  BY <1>4, <1>5 DEF OwnerHandsDown, NobodyOwns, PathsAreFound, LoadsSeeTheGlobal
<1> QED BY <1>1, <1>4, <1>5, <1>6, <1>7, <1>8 DEF GlobalInv

(* Where it is loaded, the local is the global, as long as its owner has   *)
(* not returned.                                                           *)
LEMMA LocalIsGlobal ==
  ASSUME GlobalInv, PathsAreAll, Executing, NextInstr.op = "load", owner # -1
  PROVE  Local = global
<1> DEFINE n == Len(active)
<1>1. /\ n \in Nat \ {0} /\ DOMAIN active = 1 .. n /\ n \in 1 .. n
      /\ \A k \in 1 .. n : active[k] \in Frame
  BY DEF GlobalInv, Executing
<1>2. TopFrame = active[n] /\ TopFrame.fun \in Functions
  BY <1>1 DEF TopFrame, Last, Frame
<1>3. TopFrame.fun \in Using("load")
  BY <1>1, <1>2 DEF GlobalInv, Using, NextInstr
<1>4. owner \in Int /\ owner <= n /\ owner >= -1 /\ CallsGoDown /\ OwnerHandsDown /\ NobodyOwns
  BY DEF GlobalInv
<1>5. paths.inner = InPath /\ paths.all = InPath \cup Sources
  BY DEF GlobalInv, PathsAreFound, Executing
<1> HIDE DEF n
<1>6. CASE owner = 0
  BY <1>1, <1>2, <1>4, <1>6 DEF Local, NobodyOwns
<1>7. CASE owner \in 1 .. n
  <2> DEFINE S == active[owner].fun
             L == TopFrame.fun
  <2>1. S \in Using("store")
    BY <1>1, <1>4, <1>7 DEF OwnerHandsDown
  <2>2. active[n].local = global
    <3>1. CASE owner = n
      <4>1. \A j \in owner + 1 .. n : FALSE
        BY <1>1, <3>1
      <4> QED BY <1>1, <1>4, <1>7, <3>1, <4>1 DEF OwnerHandsDown
    <3>2. CASE owner < n
      <4>1. L \in Below(S, Functions)
        BY <1>1, <1>2, <1>4, <1>7, <3>2 DEF CallsGoDown
      <4>2. /\ S \in Sources /\ L \in InPath
            /\ \A F \in Below(S, Functions) : L \in Below(F, Functions) => F \in InPath
        <5> HIDE DEF S, L
        <5> QED BY <1>3, <2>1, <4>1, BetweenIsInPath DEF GlobalInv, L
      <4>3. ASSUME NEW j \in owner + 1 .. n PROVE active[j].fun \in paths.inner
        <5>1. j \in 1 .. n /\ owner < j /\ j <= n
          BY <1>1, <1>7, <4>3
        <5>2. CASE j = n
          BY <1>2, <1>5, <4>2, <5>2
        <5>3. CASE j < n
          <6>1. active[j].fun \in Below(S, Functions) /\ L \in Below(active[j].fun, Functions)
            BY <1>1, <1>2, <1>4, <1>7, <5>1, <5>3 DEF CallsGoDown
          <6> QED BY <1>5, <4>2, <6>1
        <5> QED BY <1>1, <5>1, <5>2, <5>3
      <4>4. active[owner].fun \in paths.all
        BY <1>5, <4>2
      <4>5. n >= owner /\ owner \in DOMAIN active /\ n \in DOMAIN active
        BY <1>1, <1>7, <3>2
      <4> QED BY <1>4, <4>3, <4>4, <4>5 DEF OwnerHandsDown
    <3> QED BY <1>1, <1>7, <3>1, <3>2
  <2> QED BY <1>2, <2>2 DEF Local
<1> QED BY <1>1, <1>4, <1>6, <1>7

(* A step within the top frame that is not a store of a value.             *)
LEMMA AdvancingKeepsInv ==
  ASSUME GlobalInv, Executing, NextInstr.op # "ret",
         active' = SteppedOn, UNCHANGED <<global, owner>>, LoadsSeeTheGlobal'
  PROVE  GlobalInv'
<1>1. prog' = prog /\ paths' = paths /\ active # <<>>
  BY DEF Executing
<1>2. /\ active' \in Seq(Frame) /\ Len(active') = Len(active) /\ DOMAIN active' = DOMAIN active
      /\ \A k \in DOMAIN active :
           /\ active'[k].fun = active[k].fun /\ active'[k].local = active[k].local
           /\ active'[k].line \in DOMAIN prog.code[active[k].fun]
  BY <1>1, Advancing DEF GlobalInv
<1>3. /\ WholeCode' /\ Frame' = Frame /\ InPath' = InPath /\ Sources' = Sources /\ Promotable' = Promotable
      /\ (\A F : Below(F, Functions)' = Below(F, Functions)) /\ \A op : Using(op)' = Using(op)
  BY <1>1, SameProgram DEF GlobalInv
<1>4. CallsGoDown'
  BY <1>2, <1>3 DEF CallsGoDown, GlobalInv
<1>5. OwnerHandsDown'
  <2>1. OwnerHandsDown /\ DOMAIN active = 1 .. Len(active) /\ Len(active) \in Nat
    BY DEF GlobalInv
  <2> SUFFICES ASSUME owner \in DOMAIN active
               PROVE  /\ active'[owner].fun \in Using("store")
                      /\ \A k \in DOMAIN active :
                           /\ k >= owner /\ (k > owner => active'[owner].fun \in paths.all)
                           /\ \A j \in owner + 1 .. k : active'[j].fun \in paths.inner
                           => active'[k].local = global
    BY <1>1, <1>2, <1>3 DEF OwnerHandsDown
  <2>2. \A k \in DOMAIN active : \A j \in owner + 1 .. k : active'[j].fun = active[j].fun
    BY <1>2, <2>1
  <2> QED BY <1>2, <2>1, <2>2 DEF OwnerHandsDown
<1>6. NobodyOwns'
  BY <1>2 DEF GlobalInv, NobodyOwns
<1>7. PathsAreFound'
  BY <1>1, <1>3 DEF GlobalInv, PathsAreFound
<1> QED BY <1>1, <1>2, <1>3, <1>4, <1>5, <1>6, <1>7 DEF GlobalInv

(* The store of a value makes the top frame the owner.                     *)
LEMMA StoringKeepsInv ==
  ASSUME GlobalInv, Store, NextInstr.arg # Same
  PROVE  GlobalInv'
<1> DEFINE n == Len(active)
<1>1. /\ prog' = prog /\ paths' = paths /\ paths # <<>> /\ active # <<>> /\ seen' = seen
      /\ NextInstr.op = "store" /\ global' = NextInstr.arg /\ owner' = n
      /\ active' = [SteppedOn EXCEPT ![n].local = NextInstr.arg]
  BY DEF Store, Executing
<1>2. /\ n \in Nat \ {0} /\ n \in 1 .. n /\ DOMAIN active = 1 .. n
      /\ TopFrame = active[n] /\ TopFrame \in Frame /\ TopFrame.line \in DOMAIN prog.code[TopFrame.fun]
  BY <1>1 DEF GlobalInv, TopFrame, Last
<1>3. TopFrame.fun \in Using("store") /\ NextInstr.arg \in Locals
  <2> DEFINE F == TopFrame.fun
             l == TopFrame.line
  <2>1. F \in Functions
    BY <1>2 DEF Frame
  <2>2. l \in DOMAIN prog.code[F] /\ prog.code[F][l].op = "store" /\ NextInstr.arg = prog.code[F][l].arg
    BY <1>1, <1>2 DEF NextInstr
  <2> HIDE DEF F, l
  <2>3. F \in Using("store")
    BY <2>1, <2>2 DEF Using
  <2>4. NextInstr.arg \in {prog.code[F][m].arg : m \in DOMAIN prog.code[F]}
    BY <2>2
  <2>5. NextInstr.arg \in Locals
    BY <2>1, <2>4 DEF Locals
  <2> QED BY <2>3, <2>5 DEF F
<1>4. /\ SteppedOn \in Seq(Frame) /\ Len(SteppedOn) = n
      /\ \A k \in 1 .. n : /\ SteppedOn[k].fun = active[k].fun
                           /\ SteppedOn[k].line \in DOMAIN prog.code[active[k].fun]
  BY <1>1, <1>2, Advancing
<1> HIDE DEF n
<1>5. /\ active' \in Seq(Frame) /\ Len(active') = n /\ DOMAIN active' = 1 .. n
      /\ \A k \in 1 .. n : /\ active'[k].fun = active[k].fun
                           /\ active'[k].line \in DOMAIN prog.code[active[k].fun]
      /\ active'[n].local = NextInstr.arg
  <2>1. DOMAIN SteppedOn = 1 .. n /\ \A k \in 1 .. n : SteppedOn[k] \in Frame
    BY <1>2, <1>4
  <2>2. active' = [k \in 1 .. n |->
                     IF k = n THEN [SteppedOn[n] EXCEPT !.local = NextInstr.arg] ELSE SteppedOn[k]]
    BY <1>1, <1>2, <2>1
  <2>3. \A k \in 1 .. n :
          /\ active'[k] \in Frame
          /\ active'[k].fun = SteppedOn[k].fun /\ active'[k].line = SteppedOn[k].line
    BY <1>2, <1>3, <2>1, <2>2 DEF Frame
  <2>4. active'[n].local = NextInstr.arg
    BY <1>2, <2>1, <2>2 DEF Frame
  <2>5. DOMAIN active' = 1 .. n /\ Len(active') = n /\ active' \in Seq(Frame)
    BY <1>2, <2>2, <2>3
  <2>6. \A k \in 1 .. n : /\ active'[k].fun = active[k].fun
                           /\ active'[k].line \in DOMAIN prog.code[active[k].fun]
    BY <1>4, <2>3
  <2> QED BY <2>4, <2>5, <2>6
<1>6. /\ WholeCode' /\ Frame' = Frame /\ InPath' = InPath /\ Sources' = Sources /\ Promotable' = Promotable
      /\ PathsAreAll' = PathsAreAll
      /\ (\A F : Below(F, Functions)' = Below(F, Functions)) /\ \A op : Using(op)' = Using(op)
  BY <1>1, SameProgram DEF GlobalInv
<1>7. CallsGoDown'
  BY <1>2, <1>5, <1>6 DEF CallsGoDown, GlobalInv
<1>8. OwnerHandsDown'
  <2>1. active'[n].fun \in Using("store") /\ active'[n].local = global'
    BY <1>1, <1>2, <1>3, <1>5
  <2>2. \A k \in 1 .. n : k >= n => k = n
    BY <1>2
  <2>3. owner' = n /\ DOMAIN active' = 1 .. n
    BY <1>1, <1>5 DEF n
  <2> QED BY <1>6, <2>1, <2>2, <2>3 DEF OwnerHandsDown
<1>9. NobodyOwns' /\ PathsAreFound' /\ LoadsSeeTheGlobal'
  BY <1>1, <1>2, <1>6 DEF NobodyOwns, PathsAreFound, LoadsSeeTheGlobal, GlobalInv
<1> QED BY <1>1, <1>2, <1>5, <1>6, <1>7, <1>8, <1>9 DEF GlobalInv

(* A call is handed the local of its caller where both lie on a path.      *)
LEMMA CallingKeepsInv ==
  ASSUME GlobalInv, Call
  PROVE  GlobalInv'
<1> DEFINE n == Len(active)
           callee == [fun |-> NextInstr.arg, line |-> 1, local |-> Passed(TopFrame.fun, NextInstr.arg, TopFrame.local)]
<1>1. /\ prog' = prog /\ paths' = paths /\ active # <<>> /\ UNCHANGED <<global, owner, seen>>
      /\ NextInstr.op \in {"call", "fold"} /\ active' = Append(Resumed, callee)
  BY DEF Call, Executing, IsCall
<1>2. /\ n \in Nat \ {0} /\ n \in 1 .. n /\ DOMAIN active = 1 .. n
      /\ TopFrame = active[n] /\ TopFrame \in Frame /\ TopFrame.line \in DOMAIN prog.code[TopFrame.fun]
      /\ WholeCode /\ TopFrame.fun \in Functions
  <2>1. n \in Nat \ {0} /\ n \in 1 .. n /\ DOMAIN active = 1 .. n /\ TopFrame = active[n]
    BY <1>1 DEF GlobalInv, TopFrame, Last
  <2>2. TopFrame \in Frame /\ TopFrame.line \in DOMAIN prog.code[TopFrame.fun] /\ WholeCode
    BY <2>1 DEF GlobalInv
  <2> QED BY <2>1, <2>2 DEF Frame
<1>3. NextInstr.arg \in Callees(TopFrame.fun) /\ NextInstr.arg \in Functions
  BY <1>1, <1>2 DEF NextInstr, WholeCode
<1>4. 1 \in DOMAIN prog.code[NextInstr.arg]
  BY <1>2, <1>3 DEF WholeCode
<1>5. callee \in Frame
  BY <1>2, <1>3 DEF Passed, Frame, Locals
<1>6. /\ Resumed \in Seq(Frame) /\ Len(Resumed) = n
      /\ \A k \in 1 .. n : /\ Resumed[k].fun = active[k].fun /\ Resumed[k].local = active[k].local
                           /\ Resumed[k].line \in DOMAIN prog.code[active[k].fun]
  <2>1. CASE NextInstr.op = "fold"
    <3>1. Resumed = active
      BY <2>1 DEF Resumed
    <3> QED BY <1>2, <3>1 DEF GlobalInv
  <2>2. CASE NextInstr.op # "fold"
    <3>1. Resumed = SteppedOn
      BY <2>2 DEF Resumed
    <3> QED BY <1>1, <1>2, <3>1, Advancing
  <2> QED BY <2>1, <2>2
<1>7. callee.fun = NextInstr.arg /\ callee.line = 1 /\ callee.local = Passed(TopFrame.fun, NextInstr.arg, TopFrame.local)
  OBVIOUS
<1> HIDE DEF n, callee
<1>8. /\ active' \in Seq(Frame) /\ Len(active') = n + 1 /\ DOMAIN active' = 1 .. n + 1
      /\ active'[n + 1] = callee
      /\ \A k \in 1 .. n : /\ active'[k].fun = active[k].fun /\ active'[k].local = active[k].local
                           /\ active'[k].line \in DOMAIN prog.code[active[k].fun]
  BY <1>1, <1>2, <1>5, <1>6
<1>9. /\ WholeCode' /\ Frame' = Frame /\ InPath' = InPath /\ Sources' = Sources /\ Promotable' = Promotable
      /\ PathsAreAll' = PathsAreAll
      /\ (\A F : Below(F, Functions)' = Below(F, Functions)) /\ \A op : Using(op)' = Using(op)
  BY <1>1, SameProgram DEF GlobalInv
<1>10. \A k \in 1 .. n + 1 : k \in 1 .. n \/ k = n + 1
  BY <1>2
<1>11. CallsGoDown'
  <2> SUFFICES ASSUME NEW j \in 1 .. n + 1, NEW k \in 1 .. n + 1, j < k
               PROVE  active'[k].fun \in Below(active'[j].fun, Functions)
    BY <1>8, <1>9 DEF CallsGoDown
  <2>0. j \in 1 .. n
    BY <1>2
  <2>1. j \in 1 .. n /\ active'[j].fun = active[j].fun /\ active[j].fun \in Functions
    <3>1. active[j] \in Frame
      BY <1>2, <2>0 DEF GlobalInv
    <3> QED BY <1>8, <2>0, <3>1 DEF Frame
  <2>2. CASE k \in 1 .. n
    BY <1>2, <1>8, <2>1, <2>2 DEF CallsGoDown, GlobalInv
  <2>3. CASE k = n + 1
    <3>1. active'[k].fun \in Callees(active[n].fun)
      BY <1>2, <1>3, <1>7, <1>8, <2>3
    <3>2. /\ Callees(active[j].fun) \subseteq Below(active[j].fun, Functions)
          /\ \A H \in Below(active[j].fun, Functions) : Callees(H) \subseteq Below(active[j].fun, Functions)
      BY <1>2, <2>1, BelowFacts
    <3>3. j = n \/ active[n].fun \in Below(active[j].fun, Functions)
      BY <1>2, <2>1 DEF CallsGoDown, GlobalInv
    <3> QED BY <2>1, <3>1, <3>2, <3>3
  <2> QED BY <1>10, <2>2, <2>3
<1>12. OwnerHandsDown'
  <2>1. OwnerHandsDown /\ owner \in Int /\ owner <= n
    BY DEF GlobalInv, n
  <2>2. ASSUME owner \in 1 .. n + 1
        PROVE  owner \in 1 .. n /\ active'[owner].fun = active[owner].fun
               /\ active[owner].fun \in Using("store")
    BY <1>2, <1>8, <2>1, <2>2 DEF OwnerHandsDown
  <2>3. ASSUME owner \in 1 .. n, NEW k \in 1 .. n + 1, k >= owner,
               k > owner => active[owner].fun \in paths.all,
               \A j \in owner + 1 .. k : active'[j].fun \in paths.inner
        PROVE  active'[k].local = global
    <3>1. \A j \in owner + 1 .. k : j \in 1 .. n => active[j].fun \in paths.inner
      BY <1>8, <2>3
    <3>2. CASE k \in 1 .. n
      <4>1. \A j \in owner + 1 .. k : j \in 1 .. n
        BY <1>2, <2>1, <2>3, <3>2
      <4>2. \A j \in owner + 1 .. k : active[j].fun \in paths.inner
        BY <3>1, <4>1
      <4>3. active[k].local = global
        BY <1>2, <2>1, <2>3, <3>2, <4>2 DEF OwnerHandsDown
      <4> QED BY <1>8, <3>2, <4>3
    <3>3. CASE k = n + 1
      <4>1. \A j \in owner + 1 .. n : j \in 1 .. n /\ j \in owner + 1 .. k
        BY <1>2, <2>1, <2>3, <3>3
      <4>2. \A j \in owner + 1 .. n : active[j].fun \in paths.inner
        BY <3>1, <4>1
      <4>3. n + 1 > owner /\ active[owner].fun \in paths.all
        BY <1>2, <2>1, <2>3, <3>3
      <4>4. active[n].local = global
        BY <1>2, <2>1, <2>3, <4>2, <4>3 DEF OwnerHandsDown
      <4>5. n + 1 \in owner + 1 .. k
        BY <1>2, <2>1, <2>3, <3>3
      <4>6. NextInstr.arg \in paths.inner
        BY <1>7, <1>8, <2>3, <4>5
      <4>7. TopFrame.fun \in paths.all
        <5>1. CASE owner = n
          BY <1>2, <4>3, <5>1
        <5>2. CASE owner # n
          <6>1. n \in owner + 1 .. n
            BY <1>2, <2>1, <2>3, <5>2
          <6>2. active[n].fun \in paths.inner
            BY <4>2, <6>1
          <6> QED BY <1>1, <1>2, <6>2 DEF GlobalInv, PathsAreFound, Call, Executing
        <5> QED BY <5>1, <5>2
      <4>8. callee.local = TopFrame.local
        BY <1>7, <4>6, <4>7 DEF Passed
      <4> QED BY <1>2, <1>8, <3>3, <4>4, <4>8
    <3> QED BY <1>10, <3>2, <3>3
  <2> SUFFICES ASSUME owner \in 1 .. n + 1
               PROVE  /\ active'[owner].fun \in Using("store")
                      /\ \A k \in 1 .. n + 1 :
                           /\ k >= owner /\ (k > owner => active'[owner].fun \in paths.all)
                           /\ \A j \in owner + 1 .. k : active'[j].fun \in paths.inner
                           => active'[k].local = global
    BY <1>1, <1>8, <1>9 DEF OwnerHandsDown
  <2> QED BY <2>2, <2>3
<1>13. NobodyOwns'
  <2>1. Passed(TopFrame.fun, NextInstr.arg, InitialValue) = InitialValue
    BY DEF Passed
  <2> QED BY <1>1, <1>2, <1>7, <1>8, <1>10, <2>1 DEF NobodyOwns, GlobalInv
<1>14. PathsAreFound' /\ LoadsSeeTheGlobal'
  BY <1>1, <1>9 DEF PathsAreFound, LoadsSeeTheGlobal, GlobalInv
<1>15. \A k \in DOMAIN active' : active'[k].line \in DOMAIN prog.code[active'[k].fun]
  BY <1>4, <1>7, <1>8, <1>10
<1>16. owner' \in Int /\ owner' <= Len(active') /\ owner' >= -1
  BY <1>1, <1>2, <1>8 DEF GlobalInv, n
<1> QED BY <1>1, <1>8, <1>9, <1>11, <1>12, <1>13, <1>14, <1>15, <1>16 DEF GlobalInv

(* A return takes the top frame away, and with it an owner that was there. *)
LEMMA ReturningKeepsInv ==
  ASSUME GlobalInv, Returns
  PROVE  GlobalInv'
<1> DEFINE n == Len(active)
<1>1. /\ prog' = prog /\ paths' = paths /\ paths # <<>> /\ active # <<>> /\ UNCHANGED <<global, seen>>
      /\ owner' = (IF owner = n THEN -1 ELSE owner) /\ active' = Front(active)
  BY DEF Returns, Executing
<1>2. /\ n \in Nat \ {0} /\ DOMAIN active = 1 .. n /\ active \in Seq(Frame)
      /\ owner \in Int /\ owner <= n /\ owner >= -1
  BY <1>1 DEF GlobalInv
<1>3. /\ active' \in Seq(Frame) /\ Len(active') = n - 1 /\ DOMAIN active' = 1 .. n - 1
      /\ \A k \in 1 .. n - 1 : active'[k] = active[k]
  <2>1. n - 1 \in Nat /\ n - 1 <= n
    BY <1>2
  <2>2. active' = SubSeq(active, 1, n - 1)
    BY <1>1 DEF Front
  <2> HIDE DEF n
  <2>3. active' \in Seq(Frame) /\ Len(active') = n - 1
    BY <1>2, <2>1, <2>2 DEF n
  <2>4. \A k \in 1 .. n - 1 : active'[k] = active[k]
    BY <1>2, <2>1, <2>2
  <2> QED BY <2>3, <2>4
<1> HIDE DEF n
<1>4. /\ WholeCode' /\ Frame' = Frame /\ InPath' = InPath /\ Sources' = Sources /\ Promotable' = Promotable
      /\ PathsAreAll' = PathsAreAll
      /\ (\A F : Below(F, Functions)' = Below(F, Functions)) /\ \A op : Using(op)' = Using(op)
  BY <1>1, SameProgram DEF GlobalInv
<1>5. \A k \in 1 .. n - 1 : k \in 1 .. n
  BY <1>2
<1>6. CallsGoDown'
  BY <1>2, <1>3, <1>4, <1>5 DEF CallsGoDown, GlobalInv
<1>7. OwnerHandsDown'
  <2> SUFFICES ASSUME owner \in 1 .. n - 1, owner' = owner
               PROVE  /\ active'[owner].fun \in Using("store")
                      /\ \A k \in 1 .. n - 1 :
                           /\ k >= owner /\ (k > owner => active'[owner].fun \in paths.all)
                           /\ \A j \in owner + 1 .. k : active'[j].fun \in paths.inner
                           => active'[k].local = global
    BY <1>1, <1>2, <1>3, <1>4 DEF OwnerHandsDown
  <2>1. active'[owner] = active[owner] /\ owner \in DOMAIN active
    BY <1>2, <1>3
  <2>2. \A k \in 1 .. n - 1 : \A j \in owner + 1 .. k : active'[j] = active[j]
    BY <1>2, <1>3
  <2> QED BY <1>2, <1>3, <1>5, <2>1, <2>2 DEF OwnerHandsDown, GlobalInv
<1>8. NobodyOwns'
  BY <1>1, <1>2, <1>3, <1>5 DEF NobodyOwns, GlobalInv
<1>9. PathsAreFound' /\ LoadsSeeTheGlobal'
  BY <1>1, <1>4 DEF PathsAreFound, LoadsSeeTheGlobal, GlobalInv
<1>10. \A k \in DOMAIN active' : active'[k].line \in DOMAIN prog.code[active'[k].fun]
  BY <1>2, <1>3, <1>5 DEF GlobalInv
<1>11. owner' \in Int /\ owner' <= Len(active') /\ owner' >= -1
  BY <1>1, <1>2, <1>3
<1> QED BY <1>1, <1>3, <1>4, <1>6, <1>7, <1>8, <1>9, <1>10, <1>11 DEF GlobalInv

(* Every step keeps the invariant.                                         *)
LEMMA StepKeepsInv == GlobalInv /\ [GNext]_globalVars => GlobalInv'
<1> SUFFICES ASSUME GlobalInv, [GNext]_globalVars PROVE GlobalInv'
  OBVIOUS
<1>1. ASSUME UNCHANGED <<prog, global, owner, active, seen>>,
             paths' = paths \/ Promote
      PROVE  GlobalInv'
  <2>1. /\ WholeCode' /\ Frame' = Frame /\ InPath' = InPath /\ Sources' = Sources /\ Promotable' = Promotable
        /\ PathsAreAll' = PathsAreAll
        /\ (\A F : Below(F, Functions)' = Below(F, Functions)) /\ \A op : Using(op)' = Using(op)
    BY <1>1, SameProgram DEF GlobalInv
  <2>2. CallsGoDown' /\ NobodyOwns' /\ LoadsSeeTheGlobal'
    BY <1>1, <2>1 DEF GlobalInv, CallsGoDown, NobodyOwns, LoadsSeeTheGlobal
  <2>3. PathsAreFound'
    BY <1>1, <2>1 DEF GlobalInv, PathsAreFound, Promote
  <2>4. OwnerHandsDown'
    <3>1. CASE paths' = paths
      BY <1>1, <2>1, <3>1 DEF GlobalInv, OwnerHandsDown
    <3>2. CASE Promote
      <4>1. owner' = 0 /\ DOMAIN active' = 1 .. Len(active) /\ Len(active) \in Nat
        BY <1>1, <3>2 DEF Promote, GlobalInv, PathsAreFound
      <4>2. owner' \notin DOMAIN active'
        BY <4>1
      <4> QED BY <4>2 DEF OwnerHandsDown
    <3> QED BY <1>1, <3>1, <3>2
  <2> QED BY <1>1, <2>1, <2>2, <2>3, <2>4 DEF GlobalInv
<1>2. CASE UNCHANGED globalVars
  BY <1>1, <1>2 DEF globalVars
<1>3. CASE Promote
  BY <1>1, <1>3 DEF Promote
<1>4. CASE Store
  <2>1. CASE NextInstr.arg = Same
    <3>1. /\ Executing /\ NextInstr.op # "ret" /\ active' = SteppedOn /\ UNCHANGED <<global, owner>>
          /\ prog' = prog /\ seen' = seen
      BY <1>4, <2>1 DEF Store, Executing
    <3>2. LoadsSeeTheGlobal'
      BY <3>1, SameProgram DEF GlobalInv, LoadsSeeTheGlobal
    <3> QED BY <3>1, <3>2, AdvancingKeepsInv
  <2> QED BY <1>4, <2>1, StoringKeepsInv
<1>5. CASE Load
  <2>1. /\ Executing /\ NextInstr.op = "load" /\ active' = SteppedOn /\ UNCHANGED <<global, owner>>
        /\ prog' = prog /\ seen' = IF owner = -1 THEN seen ELSE <<global, Local>>
    BY <1>5 DEF Load, Executing
  <2>2. PathsAreAll' = PathsAreAll
    BY <2>1, SameProgram
  <2>3. ASSUME PathsAreAll PROVE seen'[1] = seen'[2]
    <3>1. CASE owner = -1
      BY <2>1, <2>3, <3>1 DEF GlobalInv, LoadsSeeTheGlobal
    <3>2. CASE owner # -1
      BY <2>1, <2>3, <3>2, LocalIsGlobal
    <3> QED BY <3>1, <3>2
  <2>4. LoadsSeeTheGlobal'
    BY <2>2, <2>3 DEF LoadsSeeTheGlobal
  <2> QED BY <2>1, <2>4, AdvancingKeepsInv
<1>6. CASE Call
  BY <1>6, CallingKeepsInv
<1>7. CASE SkipCall
  <2>1. /\ Executing /\ NextInstr.op # "ret" /\ active' = SteppedOn /\ UNCHANGED <<global, owner>>
        /\ prog' = prog /\ seen' = seen
    BY <1>7 DEF SkipCall, Executing, IsCall
  <2>2. LoadsSeeTheGlobal'
    BY <2>1, SameProgram DEF GlobalInv, LoadsSeeTheGlobal
  <2> QED BY <2>1, <2>2, AdvancingKeepsInv
<1>8. CASE Returns
  BY <1>8, ReturningKeepsInv
<1> QED BY <1>2, <1>3, <1>4, <1>5, <1>6, <1>7, <1>8 DEF GNext

(* promote_global: for every program and any depth of calls, a load finds  *)
(* in the local of its function what it found in the global, as long as    *)
(* the function that stored the value has not returned and the search for  *)
(* paths misses none.                                                      *)
THEOREM LocalsReplaceTheGlobal ==
  ASSUME ProgramsAreWhole
  PROVE  GSpec => []LoadsSeeTheGlobal
<1>1. GInit => GlobalInv
  BY StartsInv
<1>2. GlobalInv => LoadsSeeTheGlobal
  BY DEF GlobalInv
<1> QED BY <1>1, <1>2, StepKeepsInv, PTL DEF GSpec
=============================================================================
