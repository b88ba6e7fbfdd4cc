------------------------- MODULE EnumerationClasses -------------------------
(***************************************************************************)
(* Data enumeration across functions: the parameters that objects reach    *)
(* (gather_abstract_objects, flesh_out), which of them share an            *)
(* enumeration (unify_bases), which classes build an encoder and a decoder *)
(* and how a call hands them on (prepare); then calls are executed.        *)
(*                                                                         *)
(* A program has, for each function, params, bases (the objects that it    *)
(* allocates, when it is entered) and calls, a sequence of [to, pass]      *)
(* with an object, or Null, for each parameter; and for each object uses,  *)
(* a subset of {"encode", "decode"}.  Objects have names of their own.     *)
(***************************************************************************)
EXTENDS Integers, Sequences, FiniteSets, SequencesExt

CONSTANTS
  CallPrograms,   (* the programs                                          *)
  Null,           (* what is no object, or no mapping                      *)
  MaxDepth        (* a bound on the depth of calls                         *)

VARIABLES
  p,           (* the program                                              *)
  incoming,    (* of each parameter, the objects that come into it         *)
  root, size,  (* the union-find of the objects                            *)
  worklist,    (* the parameters still to unify                            *)
  order,       (* the classes, in the order of their addresses             *)
  built,       (* of each class, the mappings it builds; <<>> before       *)
  frames,      (* the calls that are active: [fun, line, env]              *)
  global,      (* of each class, its mappings: [encode, decode]            *)
  made         (* how many mappings were made                              *)

compileVars == <<p, incoming, root, size, worklist, order, built>>
classVars == <<compileVars, frames, global, made>>

Functions == DOMAIN p.params
Params == UNION {ToSet(p.params[F]) : F \in Functions}
Bases == UNION {p.bases[F] : F \in Functions}
FunctionOf(a) == CHOOSE F \in Functions : a \in ToSet(p.params[F]) \cup p.bases[F]
CallSites == UNION {{<<F, n>> : n \in DOMAIN p.calls[F]} : F \in Functions}
Site(c) == p.calls[c[1]][c[2]]

(* The edges by which objects come into the parameters: a call, the        *)
(* object passed and the parameter.                                        *)
Edges ==
  UNION {{<<c, Site(c).pass[j], p.params[Site(c).to][j]>> :
            j \in {k \in DOMAIN Site(c).pass : Site(c).pass[k] # Null}} : c \in CallSites}

ReachedFrom(objects) ==
  LET reach[n \in 0 .. Cardinality(Params)] ==
        IF n = 0 THEN objects
        ELSE LET near == reach[n - 1] IN
             near \cup {a \in Params : \E e \in incoming[a] : e[2] \in near}
  IN  reach[Cardinality(Params)]

Enumerated == DOMAIN root

-----------------------------------------------------------------------------
(* UnionFind::merge with PrioritizeBase: the root of u, if that of t is a  *)
(* parameter or its class the smaller one.  Roots that are equal are not   *)
(* told apart, and the size counts double.                                 *)
Merged(t, u, m) ==
  LET swap == m.root[t] \in Params \/ m.size[m.root[t]] < m.size[m.root[u]]
      kept == IF swap THEN m.root[u] ELSE m.root[t]
      gone == IF swap THEN m.root[t] ELSE m.root[u] IN
  [root |-> [x \in DOMAIN m.root |-> IF m.root[x] = gone THEN kept ELSE m.root[x]],
   size |-> [m.size EXCEPT ![kept] = @ + m.size[gone]]]

MergedAll(t, us, m) ==
  LET merged[n \in 0 .. Len(us)] == IF n = 0 THEN m ELSE Merged(t, us[n], merged[n - 1])
  IN  merged[Len(us)]

CInit ==
  /\ p \in CallPrograms
  /\ incoming = <<>>
  /\ root = <<>> /\ size = <<>> /\ worklist = <<>> /\ order = <<>> /\ built = <<>>
  /\ frames = <<>> /\ global = <<>> /\ made = 0

(* gather_abstract_objects, from the objects that are allocated; what no   *)
(* object reaches has no edge.                                             *)
Gather ==
  /\ incoming = <<>>
  /\ LET reach[n \in 0 .. Cardinality(Params)] ==
           IF n = 0 THEN Bases
           ELSE LET near == reach[n - 1] IN near \cup {e[3] : e \in {f \in Edges : f[2] \in near}}
         edges == {e \in Edges : e[2] \in reach[Cardinality(Params)]} IN
     incoming' = [a \in Params |-> {e \in edges : e[3] = a}]
  /\ UNCHANGED <<p, root, size, worklist, order, built, frames, global, made>>

(* share_proxies leaves disjoint sets of objects of one function, and      *)
(* flesh_out adds what they reach; unify_bases merges the objects of each. *)
(* The parameters are queued once for all (VisitOnce): a later push of one has *)
(* no effect.                                                              *)
Unify ==
  /\ incoming # <<>> /\ root = <<>>
  /\ \E cands \in SUBSET UNION {(SUBSET p.bases[F]) \ {{}} : F \in Functions} :
       LET objects == UNION {ReachedFrom(c) : c \in cands}
           start == [root |-> [x \in objects |-> x], size |-> [x \in objects |-> 1]]
           seq == SetToSeq(cands)
           merged[n \in 0 .. Len(seq)] ==
             IF n = 0 THEN start
             ELSE LET c == SetToSeq(seq[n]) IN MergedAll(c[1], Tail(c), merged[n - 1]) IN
       /\ cands # {} /\ \A c, d \in cands : c # d => c \cap d = {}
       /\ root' = merged[Len(seq)].root
       /\ size' = merged[Len(seq)].size
       /\ worklist' \in SetToSeqs(objects \cap Params)
  /\ UNCHANGED <<p, incoming, order, built, frames, global, made>>

(* Another parameter of the function that takes an object of the same      *)
(* class at every call at which this one takes any.                        *)
AllSame(a, other, r) ==
  \A e \in incoming[a] :
    \E f \in incoming[other] : /\ f[1] = e[1]
                               /\ {e[2], f[2]} \subseteq DOMAIN r /\ r[e[2]] = r[f[2]]

(* The class of all the objects that come into a parameter, of those that  *)
(* are enumerated.                                                         *)
(* MUTANT: the classes after the first are not looked at.                  *)
SharedFirst(a, r) ==
  LET classes == {r[e[2]] : e \in {f \in incoming[a] : f[2] \in DOMAIN r}} IN
  IF classes # {} THEN CHOOSE x \in classes : TRUE ELSE Null

Shared(a, r) ==
  LET classes == {r[e[2]] : e \in {f \in incoming[a] : f[2] \in DOMAIN r}} IN
  IF Cardinality(classes) = 1 THEN CHOOSE x \in classes : TRUE ELSE Null

UnifyArgument ==
  /\ worklist # <<>>
  /\ LET a == Last(worklist)
         others == SetToSeq((ToSet(p.params[FunctionOf(a)]) \cap Enumerated) \ {a})
         same[n \in 0 .. Len(others)] ==
           IF n = 0 THEN [root |-> root, size |-> size]
           ELSE LET m == same[n - 1] IN
                IF AllSame(a, others[n], m.root) THEN Merged(a, others[n], m) ELSE m
         near == same[Len(others)]
         shared == Shared(a, near.root)
         after == IF shared = Null \/ near.root[a] = shared THEN near ELSE Merged(a, shared, near) IN
     /\ root' = after.root /\ size' = after.size
     /\ worklist' = Front(worklist)
  /\ UNCHANGED <<p, incoming, order, built, frames, global, made>>

-----------------------------------------------------------------------------
(* prepare: a class builds an encoder (gather_uses makes an entry, if an   *)
(* empty one, for each function that an object is used in), and a decoder  *)
(* if its objects use one; then what the classes that come into it build,  *)
(* and once more from each class to those that it goes into.               *)
Roots == {root[x] : x \in Enumerated}
ClassOf(r) == {x \in Enumerated : root[x] = r}
Own(r) == {"encode"} \cup UNION {p.uses[x] : x \in ClassOf(r)}
ComesInto(r) == {root[e[2]] : e \in UNION {incoming[a] : a \in ClassOf(r) \cap Params}}

Propagated(flags, seq) ==
  LET given[n \in 0 .. Len(seq)] ==
        IF n = 0 THEN flags
        ELSE LET m == given[n - 1] IN
             [m EXCEPT ![seq[n]] = @ \cup UNION {m[r] : r \in ComesInto(seq[n])}]
      sent[n \in 0 .. Len(seq)] ==
        IF n = 0 THEN given[Len(seq)]
        ELSE LET m == sent[n - 1] IN
             [r \in DOMAIN m |-> IF seq[n] \in ComesInto(r) THEN m[r] \cup m[seq[n]] ELSE m[r]]
  IN  sent[Len(seq)]

(* An object that is not enumerated and comes into one that is has no      *)
(* class to look up, and the compiler stops.                               *)
Prepare ==
  /\ root # <<>> /\ worklist = <<>> /\ built = <<>>
  /\ \A a \in Enumerated \cap Params : \A e \in incoming[a] : e[2] \in Enumerated
  /\ order' \in SetToSeqs(Roots)
  /\ built' = Propagated([r \in Roots |-> Own(r)], order')
  /\ global' = [r \in Roots |-> [encode |-> Null, decode |-> Null]]
  /\ UNCHANGED <<p, incoming, root, size, worklist, frames, made>>

(* allocate_mappings, of the classes of the function whose root is a base. *)
Mapped(F, g) ==
  [r \in DOMAIN g |->
     IF r \in p.bases[F]
     THEN [k \in {"encode", "decode"} |-> IF k \in built[r] THEN <<r, made>> ELSE g[r][k]]
     ELSE g[r]]

Entered(F, passed) ==
  [fun |-> F, line |-> 1,
   env |-> [x \in (p.bases[F] \cap Enumerated) \cup DOMAIN passed |->
              IF x \in DOMAIN passed THEN passed[x] ELSE <<root[x], made>>]]

Main ==
  /\ built # <<>> /\ frames = <<>> /\ made = 0
  /\ frames' = <<Entered("main", <<>>)>>
  /\ global' = Mapped("main", global)
  /\ made' = made + 1
  /\ UNCHANGED compileVars

Top == Last(frames)
Active == frames # <<>> /\ UNCHANGED compileVars
More == Top.line <= Len(p.calls[Top.fun])

(* store_mappings_for_base: before a call, what each class with a          *)
(* parameter for its root takes from the class that comes into the root,   *)
(* one class after the other.                                              *)
Stored(site, g) ==
  LET store[n \in 0 .. Len(order)] ==
        IF n = 0 THEN g
        ELSE LET m == store[n - 1]
                 given == {e \in incoming[order[n]] : e[1] = site} IN
             IF order[n] \notin Params \/ given = {} THEN m
             ELSE [m EXCEPT ![order[n]] = m[root[(CHOOSE e \in given : TRUE)[2]]]]
  IN  store[Len(order)]

Call ==
  /\ Active /\ More /\ Len(frames) < MaxDepth
  /\ LET site == <<Top.fun, Top.line>>
         to == Site(site).to
         passed == {e \in Edges : e[1] = site /\ e[2] \in DOMAIN Top.env /\ e[3] \in Enumerated} IN
     /\ global' = Mapped(to, Stored(site, global))
     /\ frames' = Append([frames EXCEPT ![Len(frames)].line = @ + 1],
                         Entered(to, [x \in {e[3] : e \in passed} |->
                                        Top.env[(CHOOSE e \in passed : e[3] = x)[2]]]))
     /\ made' = made + 1

PassBy ==
  /\ Active /\ More
  /\ frames' = [frames EXCEPT ![Len(frames)].line = @ + 1]
  /\ UNCHANGED <<global, made>>

Return ==
  /\ Active /\ ~More
  /\ frames' = Front(frames)
  /\ UNCHANGED <<global, made>>

CNext == Gather \/ Unify \/ UnifyArgument \/ Prepare \/ Main \/ Call \/ PassBy \/ Return

CSpec == CInit /\ [][CNext]_classVars

-----------------------------------------------------------------------------
(* What the pass does not provide for: parameters that only some calls     *)
(* give an enumerated object, mappings that a callee alone needs, and      *)
(* functions that call themselves (their globals are to be promoted).      *)
AllAreEnumerated ==
  \A a \in Enumerated \cap Params : \A c \in {d \in CallSites : Site(d).to = FunctionOf(a)} :
    \E e \in Edges : e[1] = c /\ e[3] = a /\ e[2] \in Enumerated

CallersBuild == \A r \in Roots : \A s \in ComesInto(r) : built[r] \subseteq built[s]

Calls(F) == {p.calls[F][n].to : n \in DOMAIN p.calls[F]}
NotRecursive ==
  LET below[n \in 0 .. Cardinality(Functions)] ==
        IF n = 0 THEN [F \in Functions |-> Calls(F)]
        ELSE [F \in Functions |-> below[n - 1][F] \cup UNION {below[n - 1][G] : G \in below[n - 1][F]}]
  IN  \A F \in Functions : F \notin below[Cardinality(Functions)][F]

(* Whichever calls are made, a function finds for each of its parameters   *)
(* the mapping of the object that was passed, and for each object that it  *)
(* made its own, where it translates by them (unify_bases, prepare).       *)
MappingsFollowObjects ==
  (frames # <<>> /\ \E x \in DOMAIN Top.env, k \in {"encode", "decode"} :
                      k \in p.uses[x] /\ global[root[x]][k] # Top.env[x])
    => ~(AllAreEnumerated /\ CallersBuild /\ NotRecursive)
=============================================================================
