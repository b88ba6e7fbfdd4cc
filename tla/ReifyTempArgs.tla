---------------------------- MODULE ReifyTempArgs ---------------------------
(***************************************************************************)
(* reify_tempargs: what PromoteGlobals hands down calls in globals becomes *)
(* parameters.  A function that loads temporary arguments is cloned with a *)
(* parameter for each, and the values stored before its calls become       *)
(* arguments of these.  Then the module and what it has become run side by *)
(* side.                                                                   *)
(*                                                                         *)
(* A function has formals and code, a sequence of [op, glob, fn, val,      *)
(* args]: temp, the load of a temporary argument; store; call, or fold     *)
(* with fn as its body; retphi; br, the end of a block; ret.  What is      *)
(* erased stays as "erased", so that lines are those of the source.  The   *)
(* initial value of every global is InitialArg.                            *)
(***************************************************************************)
EXTENDS Integers, Sequences, FiniteSets, SequencesExt

CONSTANTS
  Modules,        (* the programs: functions by name                       *)
  InitialArg,     (* the initializer of the globals                        *)
  Own,            (* an argument that a call passes of its own             *)
  Closed,         (* the keyword before the closed arguments of a fold     *)
  MaxActive       (* bound: the calls that are active                      *)

VARIABLES
  p,              (* the source                                            *)
  list,           (* the functions of the module, in its order             *)
  addresses,      (* the globals, in the order of their addresses          *)
  fns,            (* [name, formals, code, bound, alive], by function      *)
  handled,        (* the functions that were looked through                *)
  status,         (* "reify", "run", "aborted" or "broken"                 *)
  globals,        (* the globals of the source, and of what it has become  *)
  frames,         (* the calls that are active                             *)
  found           (* what the last load found: of the source, and now      *)

compiled == <<p, list, addresses, fns>>

reifyVars == <<compiled, handled, status, globals, frames, found>>

-----------------------------------------------------------------------------
(* The module, function by function.                                       *)

Temps(f) == {n \in DOMAIN fns[f].code : fns[f].code[n].op = "temp"}

Globals ==
  UNION {{p[f].code[n].glob : n \in {m \in DOMAIN p[f].code : p[f].code[m].op \in {"temp", "store"}}} :
           f \in DOMAIN p}

Loaded(f) == {fns[f].code[n].glob : n \in Temps(f)}

Stores(g) ==
  UNION {{<<h, n>> : n \in {m \in DOMAIN fns[h].code : /\ fns[h].code[m].op = "store"
                                                     /\ fns[h].code[m].glob = g}} : h \in DOMAIN fns}

(* The lines after n up to the end of its block.                           *)
InBlock(code, n) ==
  {m \in DOMAIN code : m > n /\ \A k \in n .. m : code[k].op # "br"}

Least(lines) == CHOOSE n \in lines : \A m \in lines : n <= m

(* The call of f that a store is for: the next one in its block.           *)
CallsAfter(f, store) ==
  LET code == fns[store[1]].code IN
  {n \in InBlock(code, store[2]) : code[n].op \in {"call", "fold"} /\ code[n].fn = f}

CallOf(f, store) == <<store[1], Least(CallsAfter(f, store))>>

(* Each store must be before a call, and no other of the global be for     *)
(* that call; so a global must not be loaded twice either.                 *)
StoresFail(f) ==
  \E n \in Temps(f) :
    LET g == fns[f].code[n].glob
        stores == Stores(g)
    IN  \/ \E s \in stores : CallsAfter(f, s) = {}
        \/ \E s, t \in stores : s # t /\ CallOf(f, s) = CallOf(f, t)
        \/ stores # {} /\ \E m \in Temps(f) \ {n} : fns[f].code[m].glob = g

(* The globals that become parameters, in the order of the patches.        *)
Patched(f) == SelectSeq(addresses, LAMBDA g : g \in Loaded(f) /\ Stores(g) # {})

Erased(instr) == [instr EXCEPT !.op = "erased"]

EraseTemps(code) ==
  [n \in DOMAIN code |-> IF code[n].op = "temp" THEN Erased(code[n]) ELSE code[n]]

(* What stands for each load: the initializer, or a parameter.             *)
Bound(f) ==
  [g \in Globals |->
     IF g \notin Loaded(f) THEN fns[f].bound[g] ELSE IF Stores(g) = {} THEN "init" ELSE "param"]

(* MUTANT: the calls of a function in its own body are not remapped.       *)
RemappedNot(f, new, site) == site

(* clone_function: the stores and calls in the function itself are those   *)
(* of its clone from here on.                                              *)
Remapped(f, new, site) == IF site[1] = f THEN <<new, site[2]>> ELSE site

(* The new arguments of a call: those it has, the keyword if it is a fold  *)
(* that closes on nothing, and the values stored, by the distance of their *)
(* parameters from the end.                                                *)
NewArguments(call, values) ==
  call.args
    \o (IF call.op = "fold" /\ Closed \notin ToSet(call.args) THEN <<Closed>> ELSE <<>>)
    \o values

(* The RetPHIs up to the next call.                                        *)
RetPhisAfter(code, n) ==
  {m \in InBlock(code, n) : /\ code[m].op = "retphi"
                            /\ \A k \in n + 1 .. m : code[k].op \notin {"call", "fold"}}

(* The code of function h when the calls of f have become calls of new:    *)
(* sites are those calls and stored the stores before each, by global.     *)
Rewritten(h, code, f, new, sites, stored, order) ==
  LET mine == {n \in DOMAIN code : <<h, n>> \in sites}
      phis == UNION {RetPhisAfter(code, n) : n \in mine}
      gone == UNION {{stored[<<h, n>>][g][2] : g \in DOMAIN stored[<<h, n>>]} : n \in mine}
  IN  [n \in DOMAIN code |->
         IF n \in mine
           THEN [code[n] EXCEPT
                   !.fn = new,
                   !.args = NewArguments(code[n],
                              [i \in DOMAIN order |-> code[stored[<<h, n>>][order[i]][2]].val])]
         ELSE IF n \in phis /\ code[n].fn = f THEN [code[n] EXCEPT !.fn = new]
         ELSE IF n \in gone THEN Erased(code[n])
         ELSE code[n]]

(* clone_function: f with the parameters more and without the loads.       *)
ClonedFunction(f, order) ==
  [fns[f] EXCEPT !.code = EraseTemps(@), !.bound = Bound(f), !.formals = @ \o order]

(* reify_function, when f has parameters to get: every call that gets one  *)
(* must get them all.  f is dropped and new takes its name.                *)
Reified(f, new, order) ==
  LET clone == ClonedFunction(f, order)
      all == [h \in DOMAIN fns \cup {new} |->
                IF h = new THEN clone
                ELSE IF h = f THEN [fns[f] EXCEPT !.alive = FALSE, !.code = <<>>, !.name = ""]
                ELSE fns[h]]
      stores == UNION {Stores(g) : g \in ToSet(order)}
      at(s) == Remapped(f, new, CallOf(f, s))
      sites == {at(s) : s \in stores}
      stored == [c \in sites |->
                   [g \in {fns[s[1]].code[s[2]].glob : s \in {t \in stores : at(t) = c}} |->
                      CHOOSE s \in stores : at(s) = c /\ fns[s[1]].code[s[2]].glob = g]]
  IN  IF \E c \in sites : DOMAIN stored[c] # ToSet(order)
        THEN status' = "aborted" /\ UNCHANGED compiled
        ELSE /\ fns' = [h \in DOMAIN all |->
                          [all[h] EXCEPT !.code = Rewritten(h, @, f, new, sites, stored, order)]]
             /\ list' = Append(list, new)
             /\ UNCHANGED <<p, addresses, status>>

(* find_tempargs_to_reify: the first function of the module that was not   *)
(* looked through and has loads; main is left as it is.                    *)
Unhandled == SelectSeq(list, LAMBDA f : fns[f].alive /\ f \notin handled)

WithTemps == SelectSeq(Unhandled, LAMBDA f : Temps(f) # {})

Reify ==
  /\ status = "reify" /\ WithTemps # <<>>
  /\ LET f == WithTemps[1] IN
     /\ handled' = handled \cup {f} \cup
          {h \in ToSet(Unhandled) : \A i, j \in DOMAIN list : list[i] = h /\ list[j] = f => i < j}
     /\ IF fns[f].name = "main" THEN UNCHANGED <<compiled, status>>
        ELSE IF StoresFail(f) THEN status' = "aborted" /\ UNCHANGED compiled
        ELSE IF Patched(f) = <<>>
          THEN /\ fns' = [fns EXCEPT ![f].code = EraseTemps(@), ![f].bound = Bound(f)]
               /\ UNCHANGED <<p, list, addresses, status>>
        ELSE Reified(f, Len(list) + 1, Patched(f))
  /\ UNCHANGED <<globals, frames, found>>

-----------------------------------------------------------------------------
(* Both run.  A frame has the function of the source and that of now, the  *)
(* line, the values that the loads of the source found, and the arguments. *)

Main == CHOOSE f \in DOMAIN fns : fns[f].name = "main"

Entered(name, f, args) ==
  [name |-> name, fn |-> f, line |-> 1, env |-> <<>>, loads |-> <<>>, args |-> args]

Start ==
  /\ status = "reify" /\ WithTemps = <<>>
  /\ status' = "run"
  /\ frames' = <<Entered("main", Main, <<>>)>>
  /\ UNCHANGED <<compiled, handled, globals, found>>

Top == Last(frames)

Source == p[Top.name].code[Top.line]

Now == fns[Top.fn].code[Top.line]

(* The value of the load of g: what is loaded, or what stands for it.      *)
ValueNow(g) ==
  LET f == fns[Top.fn] IN
  CASE f.bound[g] = "load" -> Top.loads[g]
    [] f.bound[g] = "init" -> InitialArg
    [] OTHER -> Top.args[CHOOSE i \in DOMAIN f.formals : f.formals[i] = g]

(* A value is the result of a load, or one of its own.                     *)
ValueWas(val) == IF val \in Globals THEN Top.env[val] ELSE val

ValueIs(val) == IF val \in Globals THEN ValueNow(val) ELSE val

Set(map, k, v) == [x \in DOMAIN map \cup {k} |-> IF x = k THEN v ELSE map[x]]

Advanced == [frames EXCEPT ![Len(frames)].line = @ + 1]

Running(ops) ==
  /\ status = "run" /\ frames # <<>> /\ Source.op \in ops
  /\ UNCHANGED <<compiled, handled>>

Temp ==
  /\ Running({"temp"})
  /\ LET g == Source.glob
         was == globals.source[g]
         loads == IF Now.op = "temp" THEN Set(Top.loads, g, globals.now[g]) ELSE Top.loads
     IN  /\ frames' = [Advanced EXCEPT ![Len(frames)].env = Set(@, g, was), ![Len(frames)].loads = loads]
         /\ found' = <<was, IF Now.op = "temp" THEN globals.now[g] ELSE ValueNow(g)>>
  /\ UNCHANGED <<status, globals>>

Store ==
  /\ Running({"store"})
  /\ globals' = [source |-> [globals.source EXCEPT ![Source.glob] = ValueWas(Source.val)],
                 now |-> IF Now.op = "store"
                           THEN [globals.now EXCEPT ![Now.glob] = ValueIs(Now.val)]
                           ELSE globals.now]
  /\ frames' = Advanced
  /\ UNCHANGED <<status, found>>

(* The values of the formals: of a fold's body, what the fold gives it and *)
(* the closed arguments.                                                   *)
Passed ==
  LET args == Now.args
      closed == {i \in DOMAIN args : args[i] = Closed}
  IN  IF Now.op = "call" THEN args
      ELSE <<Own>> \o (IF closed = {} THEN <<>> ELSE SubSeq(args, Least(closed) + 1, Len(args)))

Call ==
  /\ Running({"call", "fold"})
  /\ Len(frames) < MaxActive
  /\ IF ~fns[Now.fn].alive \/ Len(Passed) # Len(fns[Now.fn].formals)
       THEN status' = "broken" /\ UNCHANGED frames
       ELSE /\ frames' = Append(Advanced,
                           Entered(Source.fn, Now.fn, [i \in DOMAIN Passed |-> ValueIs(Passed[i])]))
            /\ UNCHANGED status
  /\ UNCHANGED <<globals, found>>

(* A RetPHI names the function of the call before it.                      *)
RetPhi ==
  /\ Running({"retphi"})
  /\ LET code == fns[Top.fn].code
         calls == {n \in DOMAIN code : n < Top.line /\ code[n].op \in {"call", "fold"}}
         last == CHOOSE n \in calls : \A m \in calls : m <= n
     IN  status' = IF code[last].fn = Now.fn THEN status ELSE "broken"
  /\ frames' = Advanced
  /\ UNCHANGED <<globals, found>>

(* The branch is taken, or the function returns.                           *)
PassBy ==
  /\ Running({"br", "erased"})
  /\ frames' = Advanced
  /\ UNCHANGED <<status, globals, found>>

Return ==
  /\ Running({"br", "ret"})
  /\ frames' = Front(frames)
  /\ UNCHANGED <<status, globals, found>>

Ended ==
  /\ \/ status \in {"aborted", "broken"}
     \/ status = "run" /\ (frames = <<>> \/ (Len(frames) = MaxActive /\ Source.op \in {"call", "fold"}))
  /\ UNCHANGED reifyVars

-----------------------------------------------------------------------------
Init ==
  /\ p \in Modules
  /\ list \in {s \in [1 .. Cardinality(DOMAIN p) -> 1 .. Cardinality(DOMAIN p)] : IsInjective(s)}
  /\ LET names == SetToSeq(DOMAIN p)
         number(name) == CHOOSE i \in DOMAIN names : names[i] = name
     IN  fns = [i \in DOMAIN names |->
                  [name |-> names[i], formals |-> p[names[i]].formals, alive |-> TRUE,
                   bound |-> [g \in Globals |-> "load"],
                   code |-> [n \in DOMAIN p[names[i]].code |->
                               LET instr == p[names[i]].code[n] IN
                               IF instr.op \in {"call", "fold", "retphi"}
                                 THEN [instr EXCEPT !.fn = number(instr.fn)] ELSE instr]]]
  /\ addresses \in SetToSeqs(Globals)
  /\ handled = {} /\ status = "reify" /\ frames = <<>>
  /\ globals = [source |-> [g \in Globals |-> InitialArg], now |-> [g \in Globals |-> InitialArg]]
  /\ found = <<InitialArg, InitialArg>>

RTNext == Reify \/ Start \/ Temp \/ Store \/ Call \/ RetPhi \/ PassBy \/ Return \/ Ended

-----------------------------------------------------------------------------
(* As PromoteGlobals leaves a module: all calls of a function that loads   *)
(* an argument have it stored before them in their block, once each, if    *)
(* any has, and nothing else is stored to it; it is loaded once.           *)
LinesOf(f, ops) == {n \in DOMAIN p[f].code : p[f].code[n].op \in ops}

StoresBefore(f, n, g) ==
  {m \in LinesOf(f, {"store"}) :
     /\ p[f].code[m].glob = g /\ n \in InBlock(p[f].code, m)
     /\ \A k \in LinesOf(f, {"call", "fold"}) : k \notin m .. n - 1 \/ p[f].code[k].fn # p[f].code[n].fn}

ArgumentsAreStored ==
  \A g \in Globals :
    LET loads == {f \in DOMAIN p : \E n \in LinesOf(f, {"temp"}) : p[f].code[n].glob = g}
        sites == UNION {{<<f, n>> : n \in {m \in LinesOf(f, {"call", "fold"}) : p[f].code[m].fn \in loads}} :
                          f \in DOMAIN p}
        stores == UNION {{<<f, n>> : n \in {m \in LinesOf(f, {"store"}) : p[f].code[m].glob = g}} : f \in DOMAIN p}
    IN  /\ \A f \in loads : Cardinality({n \in LinesOf(f, {"temp"}) : p[f].code[n].glob = g}) = 1
        /\ Cardinality(loads) = 1
        /\ \/ stores = {}
           \/ /\ "main" \notin loads
              /\ \A c \in sites : Cardinality(StoresBefore(c[1], c[2], g)) = 1
              /\ \A s \in stores : \E c \in sites : c[1] = s[1] /\ s[2] \in StoresBefore(c[1], c[2], g)

(* A function finds in its parameters what it found in the globals, every  *)
(* call names a function that is there and passes it as many arguments as  *)
(* it has parameters, and the compiler does not stop (reify_function).     *)
ArgumentsAreHandedDown ==
  ArgumentsAreStored => status \notin {"aborted", "broken"} /\ found[1] = found[2]
=============================================================================
