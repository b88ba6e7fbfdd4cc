# MEMOIR in TLA+

MEMOIR is a compiler for programs over collections: sequences, maps, sets and
structs are values of an intermediate representation on top of LLVM's. A
front end (`c/cmemoir.h`, `c++/*.hh`) emits calls that mutate collections in
place; the *raise* passes rewrite them into SSA form, where every operation
yields a new version of a collection; analyses and transformations work on that
form; the *lower* passes turn versions back into mutations of one object and
bind each type to a runtime implementation (`impl/`).

This directory holds TLA+ models of the parts of MEMOIR whose correctness is
not evident from reading one function, TLC configurations that check them on
small instances, and TLAPS proofs for every instance.

## 1. Inventory

| Part (under `src/memoir/`) | State | Operations | Depends on | Modelled by |
|---|---|---|---|---|
| SSA construction (`raise/src/SSAConstruction*.cpp`) | inserted PHIs, `reaching_definitions`, operands, live-out metadata | PHI insertion on iterated dominance frontiers; preorder walk; one visitor per instruction | LLVM's dominator tree and frontier | `ControlFlow`, `SSAConstruction`, `SSAExecution` |
| SSA destruction (`lower/src/SSADestruction*.cpp`), RetPHI search of `LowerFold.cpp` | `coalesced_values`, `replaced_values`, staged instructions, instructions to delete | one visitor per instruction, `do_coalesce`, `find_replacement`, `cleanup` | SSA construction, runtime | `SSADestruction` |
| Runtime maps (`impl/bitmap`, `twined_bitmap`, `sparse_bitmap`) | bits and values of a map, in one piece or in chunks; an iterator | insert, remove, clear, write, get, read, has, size, begin, next | Boost, Abseil | `BitMap`, `TwinedBitMap`, `SparseBitMap` |
| Runtime sets (`impl/bitset`) | the bits of each set; an iterator | the same, and insert_input and copy | Boost | `BitSet` |
| Libraries' maps and sets (`impl/stl_unordered_*`, `abseil_*`, `boost_*`, `sparse_bitset`) | the library's container; an iterator | the operations of maps and of sets, each in the library's terms | the standard library, Abseil, Boost, Roaring | `LibraryMap`, `LibrarySet` |
| Runtime sequences (`impl/stl_vector`) | elements; an iterator with its index | folds and reverse folds, of Booleans too | the standard library | `VectorFold` |
| Union-find (`support/UnionFind.hpp`) | `_parent`, `_size` | insert, find, try_find, merge, reify, clear | - | `UnionFind` |
| Live-out insertion (`raise/src/LiveOutInsertionPass.cpp`) | live-out metadata | attaches the metadata anew: for each argument, the version it has when the function returns | SSA construction | `LiveOutInsertion` |
| Type checking (`ir/src/TypeCheck.cpp`), type inference (`raise/src/TypeInference.cpp`) | type variables in a union-find; the types found so far | `type_of`; `infer` of arguments and returns | instructions | `TypeCheck`, `TypeInference` |
| Coercion (`raise/src/Coerce.cpp`) | - | casts the indices and the value of an access | type checking | `Coerce` |
| Liveness (`analysis/`), the verifier (`ir/src/Verifier.cpp`) | IN and OUT of each instruction; parts of versions | a fixpoint; `verify_linearity` | SSA form | `Liveness` |
| Dead code elimination (`transform/utilities`) | worklist | deletes what nothing uses | instructions | `DeadCode` |
| Data enumeration (`transform/data_enumeration`) | objects, equivalence classes, candidates, encodes and decodes | analysis, benefit, preparation, transformation | types, union-find, utilities | `Enumeration`, `EnumerationClasses` |
| Promotion of globals (`transform/utilities`), call graph (`ir/src/CallGraph.cpp`) | paths of the call graph | a global becomes locals handed down calls | data enumeration | `PromoteGlobals` |
| Lambda lifting, defunctionalization, repair of SSA form (`raise/`) | - | rewrites | SSA construction | - |
| Types (`ir/src/Types.cpp`) | one object for each type | `define`, `get`, codes | - | `Types` |
| Instructions, keywords, builder (`ir/`, `c/cmemoir.h`) | the operands of a call | macros and the builder write them, classes read and rebuild them | types | `Operands` |
| Bounds checks (`analysis/src/BoundsCheckAnalysis.cpp`) | the facts of each version; a worklist | propagation to a fixpoint | SSA form | `BoundsChecks` |
| Mutation of types (`transform/utilities/src/MutateType.cpp`, `transform/data_enumeration/src/MutateTypes.cpp`) | the types of allocations, clones of functions | `mutate_type`, `mutate_types` | types, data enumeration | `MutateType` |
| Reification (`transform/utilities/src/ReifyTempArgs.cpp`) | the functions cloned, the values handed down | one pass over the functions and their calls | promotion of globals | `ReifyTempArgs` |
| Live ranges, ranges, value numbering (`analysis/`) | constraint graph, numbers of values | fixpoints, propagation | instructions | - |
| Inlining (`transform/utilities`) | - | rewrites | - | - |
| Lowering of accesses (`SSADestruction.cpp`) and folds (`LowerFold.cpp`) | the IR it rewrites | one visitor per access: fetch the nested object, resolve `end`, call its operation | types, runtime | `Lowering` |
| Implementation selection and linking (`lower/src/Impl*.cpp`) | registered implementations, structs and collections to emit | `run` of the pass: canonicalize, link each allocation, `emit` | types | `Linking` |
| Type layout (`lower/TypeLayout.hpp`) | - | layouts of tuples, which nothing uses | types | `Types` |
| Other support containers (`support/`) | worklist, sorted vector, multimap, association list | their operations | - | - |

The parts in the order a program meets them: the front end's calls are raised
(SSA construction, then live-out insertion, with inference and coercion before
and after), analysed and transformed in SSA form, and lowered (SSA destruction,
fold lowering, linking of implementations). The lowered program then calls the
runtime collections: `insert`, `remove`, ... for the operations and
`begin`/`next` for a fold. The compiler's parts share the program they rewrite;
SSA construction also leaves the live-out metadata for live-out insertion.

The compiler is sequential: no threads, no messages, no persistence. What makes
it hard is elsewhere:

* state that outlives the program point it was computed for (the reaching
  definitions of another subtree of the dominator tree, pointers noted before a
  replacement);
* control flow: each path through a rewritten function must show the same
  contents as the source, and there are unboundedly many paths;
* rewriting while iterating: lists of uses and blocks change under a loop;
* orders chosen by pointers and hash tables: the names, the children of a
  dominator tree node, the staged instructions, the order of functions;
* runtime collections with several representations of "absent", and folds that
  run while the program writes to what they walk.

What makes each part correct, in a sentence: construction gives every operand
the version its object has there, on every path; destruction gives every operand
back the one object it had; a runtime collection does what the abstract map, set
or sequence does, folds included; an access of a nested object, once lowered,
reaches the element that its indices name, and every function it calls is
declared and instantiated; union-find names the parts of a partition.

## 2. Modules

### SSA form

`ControlFlow` has control-flow graphs, reachability, dominance, its tree and its
frontier, defined on paths: `Dominates` is "every path from the entry passes
through", as LLVM defines it, and no algorithm that computes it is modelled.

`SSAConstruction` is the pass of `raise/`. A program is a record of blocks,
successors (a sequence, so that a switch may list one block twice), arguments,
PHIs and instructions; an instruction is a record of its kind, its object, its
input and the name it defines, because the visitors tell nothing else apart. A
fold that closes on several objects, or a call that is passed several, is written
as several instructions in the order in which `visitFoldInst` and
`visitLLVMCallInst` rename them: the collection of a fold goes with the first, its
initial value is a use before them, its result is the last one's. The chains of
different objects are apart, so for different objects this is what the visitors
do:

| Code | Module |
|---|---|
| `SSAConstructionPass::run`, the loop over names, `def_parents`, the worklist over the frontier | `unprocessed`, `defWork`, `current`; `PickName`, `InsertPhis`, `NameDone` |
| `_dfs_preorder_traversal` and the walk | `todo`, `block`, `idx`; `PickBlock`, `SubtreeDone`, `WalkDone`, `LeaveBlock` |
| a visitor: the operands it renames, in order | `InstructionRequests`, `SuccessorRequests`; `requests` |
| `update_reaching_definition`, one step of its loop each | `Begin`, `Follow`, `Rename`; `site`, `probe` |
| `set_reaching_definition`, `setArgNo` at the end of a visitor | `NewReaching`, `NewLiveOut` in `Advance` |

The order of names and of a block's children is free, as in the code it is the
order of pointers. `UsePhis` is the option `memoir-enable-use-phis`.

`SSAExecution` composes it with an execution: when the pass is done, the source
and its rewritten form run in lockstep along one path. In the source a mutation
changes an object for everyone who refers to it; in the rewritten program a
value never changes. Contents are the clock of the last mutation, which
distinguishes every two histories. `CanRun` says of which functions the theorems
about this run speak.

`SSADestruction` extends `SSAConstruction`: `Visit`, `LowerAlloc` and
`LowerFold` fill `coalesced` and stage folds and allocations (visited in any
order, as a hash set of pointers gives them; each fold lowered splits its
block); `Coalesce`, `FollowReplacement`, `Replace` and `NextInLayout` are
`do_coalesce` and the loop of `find_replacement`, over the blocks in any order
the function's list may have; `Cleanup` is `cleanup`. Then source and lowered
function run in lockstep, now with mutable objects on both sides.

`Lowering` is the other half of destruction: what each
access to a nested object becomes. The program works on trees, the lowered one
on a heap of the runtime's collections in which a nested collection is a
pointer and a nested tuple lies in place; both take one instruction at a time.

| Code | Module |
|---|---|
| the operations of `stl_vector`, `stl_unordered_map`, `stl_unordered_set`, by the name of the function that the lowered program calls | `SeqOps`, `MapOps`, `SetOps`, `Call`: an operation that is not defined for the type is "unsupported", one outside of its bounds "undefined" |
| `get_nested_object`: `get` or `read` of each collection, a GEP into each tuple | `get_nested_object` |
| `contextualize_end` | `minus_one`, `contextualized`, `contextualized_range` |
| a visitor: fetch, operands, call | `visitAccess`, `visitField`; `Read`, `Write`, `Insert`, ... |
| `construct_collection_allocation`, `visitDeleteInst` | `Allocated`; `Alloc`, `Delete` |
| `lower_fold_header`: a loop with an iterator | `FoldBegin`, `FoldNext`, `FoldEnd` |

`Linking` is the pass that decides which functions the runtime has: which
implementation each type selects, which instantiations its allocations need
(`link_implementation`, `canonicalize`, `implement`), and in which order `emit`
declares their structs and headers. Structs and collections are emitted in
any order, as they are in a set of pointers.

`MCFunctions` has the families of functions the model checker runs on;
`MCSSA` and `MCDestruction` choose among them by `Suite`.

### The runtime

`AssocSpec` and `SetSpec` are what the compiler expects of a map and of sets.
Their variable `last` holds the latest operation, its arguments and its result,
and belongs to the implementations' state as well. So a refinement compares
results, and a lost insertion cannot pass for some other operation with the same
effect. A key that is inserted without a value may have any value until it is
written; a fold ends when the program inserts or removes.

`BitMap`, `TwinedBitMap`, `SparseBitMap` and `BitSet` have one action for each
operation of the C++ templates, and refine those specifications by `INSTANCE ...
WITH`: contents is the function from the set bits to their values, `left` the set
bits from the iterator's position on. `VectorFold` has the vector's four
iterators: a pair of library iterators with an index counted beside it, and, for
Booleans, the index alone. Its arithmetic is modulo its `Word`, since a forward
index starts at the largest `size_t`.

`LibraryMap` and `LibrarySet` are the wrappers of library containers: what an
iteration sees is any permutation of the keys, or their order for a flat container
and a Roaring bitmap, whose keys are taken modulo 2^32 (`Roaring`). They refine
the same two specifications, with `Kept` for the one point where the maps differ:
`emplace` leaves a key that is there as it is, an assignment writes it.

`PartitionSpec` is what the users of `UnionFind` rely on, and `UnionFind` refines
it: the name of an item's part is the root of its tree.

`MCRuntime` composes them: the implementation is chosen first, as the compiler
chooses it, and the program works on it alone. It extends `BitMap` and
`UnionFind` and has an instance of each other. Every property of its run is also
proved (`ContainerProofs`).

### Analyses and rewrites of the SSA form

`InPlaceRuns` has functions in SSA form and executes them as they will be
lowered, every update in its object; `stale` says that a value was read whose
version had been overwritten. On it stand `Liveness` (the transfer functions of
the analysis, its fixpoint block by block in any order, then `verify_linearity`
on the result and the execution of the function) and
`LiveOutInsertion` (the pass, then the function is executed and its caller
looks). Its functions are as SSA construction leaves them: `VersionAt` gives the
version that an argument has before each instruction, and `IsVersioned` says that
there is one at a time, redefined by instructions and joined by PHIs, as the walk
of SSA construction keeps one current definition of each collection. LLVM's
post-dominator tree is given by paths; a loop without an end is, as in LLVM, an
exit of its own (`CannotReach`).

`TypeCheck` is the recursion of `type_of` as a stack machine, with the type
variables of PHIs and the unification of what flows together. A PHI to which no
type comes takes the type of what it is merged with, and a conflict may then be
with that guess (`SomeAreGuessed`), which the types that come along definitions
do not show. `TypeInference` is
the recursion of `infer` through callers, over the two runs of the pass;
`Coerce` is the walk down the type of a nested access; `DeadCode` the walk over
a function with the worklist that it passes by value.

`BoundsChecks` is the propagation of the facts of each version, of which keys are
in it, with the sorted sets they are kept in; then the function runs.
`MutateType` gives allocations the types that enumeration wants, in clones of the
functions with encoded parameters too. `ReifyTempArgs` makes parameters of the
globals that a promotion left; then the module and what it became run side by
side. `Types` has the tables of uniqued types, their codes and how a tuple is
laid out; `Operands` how a call is written, rebuilt and read.

`MCAnalyses` has their functions, graphs and programs and chooses which of them
runs. It extends `Liveness`, `LiveOutInsertion`, `DeadCode`, `Coerce` and
`TypeInference` and has an instance of each other.

### Data enumeration

`Enumeration` takes a function with the bodies of its folds through
`analyze`, the forward analysis, the removal of redundant translations and
`transform`; then the program and its translation run side by side, each on its
own values, with the encoder and the decoder of each class. Collections are
functions from paths to elements, since offsets are what an object is.
`EnumerationClasses` has what crosses calls: the parameters that objects reach,
the classes they are unified into, the encoders and decoders that each class
builds, and the globals that hand them on. `PromoteGlobals` turns such a global
into locals along the paths from stores to loads, in the call graph as
`CallGraph.cpp` makes it: a fold is an edge to its body, and a body is not taken
to be called from outside of the module for being an operand. `MCTransformations` has the
programs of the three, the typings of lowering and the modules of linking, and
chooses among them. It extends `Enumeration` and `PromoteGlobals`.

Which lines each definition stands for is in `PROJECT.json` under `map`; what a
program means before it is transformed, which the models of the transformations
compare with, stands for no lines and is not listed there.

## 3. Runs

| Run | Functions, values and bounds | What it shows |
|---|---|---|
| `ssa_construction` | one argument on five graphs (branch, loop, branch in a loop, break, two returns); two arguments that feed each other as inputs and closed objects of folds, or that one fold closes on; an argument and its copy; source PHIs at joins and around loops. `MaxSteps = 12` | Types, names and dominance hold at every step; on every path each read finds the contents of the source, and callers learn of every mutated argument; no operand is renamed twice; the pass ends |
| `ssa_round_trip` | functions with PHIs, folds that close on an argument or a copy, with `UsePhis`. `MaxRun = 12` | After both passes each instruction works on its source object; nothing refers to a value that is gone; no chain of replacements is endless |
| `runtime` | maps: keys 0, 1, 4, two values, chunks of 2; bitsets: keys 0 and 2, two sets; libraries' sets: keys 0, 3, two sets, `RoaringKeys = 4`; sequences of up to 3 elements, `Word = 8`; a union-find of 3 items; `IndexWord = 8` for the index of a vector and `Word = 4` for the sizes of union-find | Each implementation is the abstract map, set or partition (the sparse bitmap but for where its folds start, the libraries' maps but for a value inserted twice) and its representation stays sound; a fold over a vector sees every element once, at its index, also when the body writes; sizes that wrap do no harm |
| `analyses` | branches, loops and PHIs that exchange versions; graphs of values with cycles; programs of up to three functions; nested types; for bounds checks two keys with two values; for mutation functions with clones, folds and calls; modules with up to three functions for reification; types made one after the other and tuples of up to six fields; every macro and builder call. `MaxSteps = 14`, `MaxDepth = 10`, `MaxCalls = 7`, `MaxBlocks = 4`, `MaxMade = 2`, `MaxFields = 6`, `MaxActive = 4`, `Places = {1, 2}`, `MaxAdded = 2` | Liveness is what the paths say; a function that the verifier accepts reads no version that was overwritten; the caller finds the version of every return; types, and conflicts of types, are found; a type comes from all callers; indices are coerced also below a tuple; what an effect needs is kept; mutated types agree with what works on them, and a function finds in its parameters what it found in globals; keys known to be there are there; one object for each type, one type for each code, fields that do not overlap, and operands that are read as they were written; every analysis ends |
| `transformations` | data enumeration: two keys; functions with sets, maps, nested collections, folds, joins and copies; call graphs of up to four functions with branches and recursion, `MaxDepth = 4`, `MaxFrames = 5`. Lowering: eight typings of one or two objects (`MCTypings`), nested up to three deep, sequences of one element, or two where the elements are values or sets, one key, or two in a map of sequences. Linking: modules of one or two nested types, five implementations | The translated program shows what the source does, encoder and decoder stay inverse, a call finds the mappings its class needs, and a load of a promoted global what the global holds; a lowered access returns and leaves what the program means, and runs where it is supported; every function that the lowered program calls is instantiated, and nothing is used before it is declared |

The bounds. Two objects and two names are enough to confuse one with another;
the graphs are the smallest with a join, a loop, a loop with a join inside, a
frontier block that is not a join of a branch, and a return away from the join.
Twelve steps go around a loop twice, or once and out, so a value of the first
iteration meets the second. Blocks are filled from a menu, in every
combination; where the menu has reads and `UsePhis` is off, an empty block adds
nothing, since a read makes no version. Keys 0 and 1 share a chunk and are its
start and its end, 4 starts another, the chunk between stays empty; beyond that
the implementations do not tell keys apart. `Word` and `IndexWord` are the number
of values of a `size_t`; they are small so that the wrap-around is within reach.
Two types made after the primitive ones are enough for one to be part of the
other, or for two with the same parts; six fields fill a word with the smallest
widths and begin another; two places are enough for a call to be rebuilt at the
address of an earlier one.

Deadlock is checked in every run but `transformations`, `end_of_nested` and
`mappings_back_propagated`, whose programs end: a pass that stops anywhere but at its end, or an operation that cannot
proceed, would be reported.

### Disagreements

Seven runs are expected to find a violation. Each checks one property that a
comment or an assertion of the code states:

| Run | What happens |
|---|---|
| `ssa_branch_call` | A call of an ordinary function gives its object a new version, but its block is not gathered as one that mutates the object. A join after a branch with such a call gets no PHI, and reads there see the version from before the call |
| `ssa_loop_mutation` | After a body is rewritten, an argument mutated in a loop is used by the inserted PHI only, and `use_is_mutating` no longer sees the mutation: the RetPHIs of a fold depend on the order of the functions |
| `destruct_both_sides` | A fold that only reads an object, before a branch whose sides each have a fold that mutates it: the search for its RetPHI finds the two of the others and stops the compiler |
| `sparse_bitmap_begin` | `begin` does not look for the first set bit: a fold starts at a key that may not be in the map |
| `vector_bool_fold` | A fold over Booleans runs its body once more than there are elements. Told to continue, TLC also finds that a reverse fold's body is never handed the element: `next` drops the bit it tested |
| `end_of_nested` | `memoir_end` as the last index of a clear, a copy or a fold becomes the size of the collection, not its last index: an element behind the last is fetched |
| `mappings_back_propagated` | The loop under the comment "Back propagate from arguments to callers." propagates forward once more: a mapping that only a callee uses is not built by the class of its caller |

The first two are faults of construction alone that destruction repairs: it
coalesces all versions of an object back into one, so that the functions of these
runs, which `ssa_round_trip` includes, work on the right objects once lowered.
They matter to whatever reads the SSA form in between.

Others were met while modelling and have no run of their own:

* SSA construction: a join where a source PHI already has the name as an incoming
  value gets no PHI of the name; a read of the name after the join sees the
  version from before the branch. `ReadsSeeLatest` is stated for programs without
  such a PHI.
* SSA construction: a switch with two cases for one block has a PHI with two
  entries for the edge, of which only the first is updated.
* The verifier: `Verifier::verify` returns before it calls `verify_linearity`
  (`Verifier.cpp:268-269`); `check_call` never inserts into the set it tests.
* Dead code elimination: the worklist is passed by value
  (`DeadCodeElimination.cpp:18`), so that what becomes dead is not looked at
  again, as the comment at line 32 would have it.
* Promotion of globals (`PromoteGlobals.cpp:209-212`): a path ends at the first
  function that loads. Where main stores and calls f, f calls g, g calls f, and
  f loads, the call in g passes the initializer, and the load of the inner f
  does not see the store. `LoadsSeeTheGlobal` is stated where no recursion leads
  through a function that loads. The search for paths need not end for three
  functions that all call each other (lines 104-132).
* Data enumeration: "Unify arguments until a fixed point is reached."
  (`Analysis.cpp:599`) pops each argument once; the stores of mappings before a
  call are made one after the other (`Prepare.cpp:481-503`), so that a call that
  exchanges two arguments passes one mapping twice; "If the accumulator is
  encoded, then the result of the fold is encoded." (`Utilities.cpp:91-92`)
  holds in some orders of the worklist only, and a body with a second return of
  an accumulator that is not encoded is visited forever (lines 100-102).
* The mutation of types: `mutate_found_types` clones the functions with encoded
  parameters before it mutates the allocations in them, and does not follow the
  allocations into the clones, which keep the old type; `gather_redefinitions`
  does not follow copies and gets, nor what is returned; a fold over a nested
  collection applies the difference's whole offsets to a type that is at those
  offsets already, so that a fold over an element of an outer fold is given no
  key type or a wrong one; `gather_offsets` does not advance the type.
* Reification: two loads of one global in a function, or two stores for one call,
  stop the compiler, as does a call with a store for some of the arguments only
  ("Argument is NULL!"); a call without any store goes on calling the function
  whose arguments were dropped; main is not looked at; loads without any store
  become the initializer; the pass always says that it changed nothing; the
  comment at the head of its header describes live-out metadata.
* Lowering of accesses: `visitEndInst` resolves `memoir_end` at its first use only,
  since `use.set` takes the use off the list it iterates over; the end in a range
  of an `input` is sized by what it is inserted into; an access to a sequence of
  Booleans that fetches, copies, removes or inserts has no operation to call, and
  `keys` is never lowered; a collection of collections is copied with its inner
  pointers ("TODO: if Val is a collection type, we need to deep copy.",
  `stl_unordered_map/definition.hpp:49`) and freed without them; `visitGetInst` is
  not defined. `Unsupported` in `Lowering` lists the shapes that no operation
  fits, and `CopyNested` is off for the copies.
* Linking: "instantiates them." (`ImplLinkerPass.cpp:48-49`) misses collections
  within the collection field of a tuple that is the field of a tuple
  (`InFieldOfInner`); "Create forward declarations of all struct types."
  (`ImplLinker.cpp:492`) emits definitions, so that the order of pointers decides
  whether a field's collection of tuples comes before its element's struct
  (`IsField`); an allocation whose selection is not registered is linked with the
  default, and `get_implementation` aborts when SSA destruction asks for it; the
  exit status of the compiler is not looked at.
* Access instructions: `CopyInst` and `KeysInst` derive from `AccessInst`, whose
  `classof` denies it; `AccessInst::getInnerObjectType` declares a second
  `nested_type` in its loop and aborts whenever there is an index.
* Bounds checks: `checks.join(...) or checks.insert(...)`
  (`BoundsCheckAnalysis.cpp`) leaves out its own fact where the join changes
  something, so that "not there" survives the insertion; the "replace it" of a
  negation in `BoundsCheckSet::insert` never happens; a value without facts is
  never put on the worklist, so that PHIs stay optimistic about it; nor is the
  result of a clear, since `result[*user]` (line 100) has entered it before
  `not result.contains(*user)` (line 120) asks, so that the facts of what follows a
  clear are never computed; what a branch
  on `has` says is lost where paths meet; `index_order` reads past the end of
  the shorter of two lists. No pass uses the result.
* Types: a type spelled `u64_ref` is decoded as the integer, `i2` not at all; the
  code of a tuple `T1` with a reference to `u8` is that of a reference to the tuple
  `T1` with `u8`.
* Type layout: `visitTupleType` adds the field's own type after an aggregate that
  fills its size, while the offset counts one element, so that the fields behind
  overlap ((u2, u2, u2, u2, u64, u64) is one); `get_next_size` rounds the bits down,
  so that an aggregate of 9 to 15 bits at the end has 8. `LayoutHolds` excepts
  these; SSA destruction does not use the layouts.
* Operands: `CreateClearInst` drops the indices (`Builder.hpp:550`), so that
  rebuilding the clear of a nested object clears the object around it;
  `memoir_rfold` puts `reverse` before the indices (`cmemoir.h:115-117`) and
  `memoir_push_back` the end (137-142); `memoir_assoc_keys` calls a function
  that the table of names does not have; the builder can make no `u2` and no
  array; a fold that accumulates a reference stops the compiler; a closed value
  added to a fold whose `reverse` follows `closed` is not closed on. Wrappers of
  an instruction are reconstructed in place, so that a pointer kept to one denotes
  whatever is at a recycled address.

### Fairness

`Construct` and `Destruct` are weakly fair in the specifications with liveness
properties: both passes are sequential code that nothing interrupts, so while
they can take a step they take one. The execution that follows is not fair and
no liveness is claimed of it. In `USpec` the steps of the analyses that
`EverythingEnds` is about (liveness, `type_of`, type inference, the propagation
of bounds checks) are weakly fair for the same reason, and no other step is. The
runtime's modules and those of the transformations have safety properties only:
when a program calls which operation, and which branch it takes, is up to the
program, and the rewrites themselves are loops over lists.

For `type_of` and type inference `EverythingEnds` counts the bound of the stack as
an end, as the code has none there. When the bound may be reached is said by
`TypesAreExact` (only where a load depends on itself, `EndlessOnlyInLoads`) and
`InferredFromCallers` (only where functions call each other in a circle,
`EndlessOnlyInCircles`).

## 4. Proofs

All theorems hold for every value of the constants that meets the named
assumptions; TLC evaluates the assumptions on every run. No proof depends on a
fast machine: each leaf is also proved within a tenth of the provers' time
limits (`tlapm --stretch 0.1`).

**SSA construction** (`SSAConstructionProofs`). `TypeCorrect`, `NamesAreKept`,
`DominanceIsKept`, `LiveOutsAreDistinct`. Assumptions: `NamesAssumption` (a name
is none of the markers), `ProgramsAssumption` (every program is well formed and
in SSA form: definitions dominate uses, the dominator tree and frontiers are
those of the graph). None of the properties is inductive. `IInv` adds to them
what a chain of reaching definitions is: the
operands of the source and those of the inserted PHIs are all there
(`SitesInv`); an entry of `reaching` leads from a version of a name to
a version of the *same name* that exists (`ChainInv`); a search is for an
operand that exists, and what it probes is a version of the operand's name
(`SearchInv`); while PHIs are inserted there is a name they are for
(`CursorInv`). The hard cases are `InsertPhis`, where the dummies of a new PHI
must already dominate its edges (`DummiesAreDominated`: a block in the dominance
frontier is entered only from blocks its dominator dominates), and `Advance`,
where a visitor publishes new versions. That `IInv` keeps the name along every
chain is why a stale entry of another subtree does no harm.

**The walk** (`SSAConstructionProofs`). `NearestVersionsFound` and `OperandsAreFinal`:
of the versions whose definition dominates its use, each operand is in the end
the one that all others come before, and no operand is renamed twice. They are
proved of functions with `SimpleEdges`: no block has a successor twice. Of a
switch that lists a block twice the code asks for the same operands twice, so
the hypothesis is needed; TLC evaluates it of the graphs that the runs use. The
inductive `WInv` has three layers. `TreeInv` says what is left of the dominator
tree: the subtrees still to visit are apart, and what dominates a block to come
dominates the block last visited, so a block is visited once and after its
dominators. `SitesAre`, `AskedHere` and `SiteIsHere` say that every operand is
asked for at its point, and there once. On these stands `WalkInv`: an operand that
is ahead of the walk holds its name and one that is behind it the nearest version
(`RenamedToNearest`); a name leads to its nearest version at the current point
(`NamesReachHere`); another version leads to the nearest where it is defined
(`ChainsAreTight`), so that the search passes over no version which dominates the
current point (`SearchIsTight`). Leaving a subtree is the step that one would
doubt, since the map is not popped: the versions nearest at the end of the block
left are also nearest at the beginning of the next, of those that dominate it
(`WalkLeave`), as every block that dominates the next dominates the one left.

**The rewritten function runs like its source** (`SSAExecutionProofs`).
`OperandsAreUpToDate` and `LiveOutsAreUpToDate`: on every path, however often it
goes around a loop, each operand holds the contents that its object has in the
source, and at a return what reaches it for an argument holds the argument's final
contents and is marked live out, or returned, if they changed. The argument has
three parts.

1. The PHIs are complete. The worklist of `InsertPhis` is left with no PHI due on
   the frontier of a definition, an update or a PHI (`NoneIsMissing`, in `PhisInv`):
   a block is taken off it only after its frontier was seen to.
2. So the nearest version is one thing along a path. At the beginning of a block
   the nearest version of a name is a PHI of the block (`PhiIsNearest`), or it is
   the nearest version at the end of every predecessor (`NearestAtEnd`): were
   another version nearest at one of them, some block on the way would be on its
   frontier and would have a PHI. With `WInv` of the walk, an operand is that version.
3. The invariant of the run, `RunOK`: the nearest version of each name in use holds
   the contents of its object (`NearestHold`), and no two names in use are of one
   object (`NamesAreApart`). The second half is what makes the first inductive, as a
   mutation through one name makes no version of another.

For callers `OutsInv` adds that at a return the walk has left behind, what reaches
it for an argument is marked, returned, or the argument itself, which holds what it
was called with.

The hypothesis is `CanRun` of every function; TLC evaluates it of all functions of
`ssa_construction` (`AllCanRun`). It excludes, with `SimpleEdges`: a PHI that takes
over an object whose old name is used later, or that two PHIs take (`PhisTakeOver`;
then two names are of one object, and SSA construction does not look for aliases; a
PHI of an argument is such a case, as a return uses each argument); a call with an
object that `use_is_mutating` sees no mutation of, in a block with a frontier
(`CallsAreCovered`; this is the disagreement that `ssa_branch_call` shows: the
theorem is false without it); and objects that are made otherwise than by an
allocation, a copy or an access (`ObjectsAreMade`).

**SSA destruction** (`SSADestructionProofs`). `LowerTypeCorrect`,
`LowNamesAreKept`, `NothingIsLeftDangling`, from `IInv` and `LowInv`, and
`NoVersionRemains`, from these and `VersionInv`, and `ObjectsAreTheSame`, from
all of them and `RunInv`. The idea of
`LowInv` is that `coalesced` and `replaced` *descend*: they lead from each
version to one whose definition is strictly earlier. Dominance is proved a strict
order from its definition on paths (`ReachableClosed`, `DominanceAntisymmetric`,
`DominanceTransitive`, in `SSAConstructionProofs`), so a value cannot be replaced
by one that depends on it,
whatever the order of blocks. `VersionInv` says that each version there is has a
value to stand for or a staged fold yet to find it: whichever RetPHIs the search
of a fold chooses among, its own is one of them (`OwnVersionIsChosen`).

`ObjectsAreTheSame` is about the two passes together: whatever path a run takes,
each operand of the lowered function refers to the object that the source's does.
`RunInv` says it of every value that is *available*: one whose definition
dominates the point the run is at refers to the object its name does. The step
that matters is a branch. What is available behind it is a PHI of the target,
whose operand was available at the end of the edge (`OperandsInv`), or was
available before and has a name which no PHI of the target defines again: were
there one, its block would dominate the value and be dominated by it. So the
stale values of an earlier iteration, which are still there, are not looked at. A
PHI that construction inserts lies below the definition of its name
(`PhisBelow`), which needs that what dominates every predecessor of a block
dominates the block (`DominatedFromPreds`).

**The bitmap** (`ContainerProofs`). `RepAlwaysOK` and `BitMapIsAMap`, from
`KeysAssumption` (keys are numbers, the value of new memory is a value).
`RepOK` is inductive. It is what makes the step-by-step refinement work: `read`,
`write` and `next` index the values unchecked, and `RepOK` says every set bit has
room for its value though the two are resized apart. `StepsAreTheMaps` has one
step for each operation, which maps to the operation of the same name.

**The bitmaps in chunks** (`ContainerProofs`). `TwinedBitmapsAreMaps` and
`SparseBitmapsAreMaps`, from `KeysAssumption` and `ChunksAssumption` (a chunk has
a place). What the two share is a theory of functions from numbers to chunks
(`IsChunked`): a key and its chunk and place there determine each other
(`KeyHasPlace`, `PlaceHasKey`), chunks that are added hold nothing
(`AddedHoldNothing`), a change of one place is one of one key
(`OnePlaceChanges`), the counts of the chunks add up to the number of keys
(`SumIsNumber`, by induction on the number of chunks), and places in the order
a fold walks them are keys in their order (`PlacesInOrder`), so that the first set
place behind a key's is that of the least key left (`WalkGoesOn`). The inductive
`TwinedInv` adds that the chunks are numbered from 0 on and the iterator is at a
set place or behind the last chunk; `SparseInv` that each chunk was made for a key
and the iterator may also be at the start of a chunk, the step where the
implementation is a map only with `YieldExtra`.

**The bitsets** (`ContainerProofs`). `BitSetsAreSets`, from `SetKeysAssumption`
(keys are positions). `BitsetsInv` has for each set a bitset of its own size;
the three ways of `insert_input` are one union (`BitsetUnion`), also of a set with
itself.

**Folds over a vector** (`ContainerProofs`). `FoldsSeeEachElement`, from
`WordsAssumption` (the index has more values than the vector has elements).
`IndexKeepsUp`, what the run checks, is not inductive: `FoldKeepsUp` says besides
where the index is before the first element, and that a fold of library
iterators has as many elements left as it has not seen.

**The libraries' maps and sets** (`ContainerProofs`). `LibrariesAgree`, from
`KeysAssumption` and `RoaringAssumption` (a Roaring bitmap is selected for
enumerated keys, which are fewer than its numbers, so that none is truncated).
What is ahead of an iterator is a sequence in which each key of the container
comes once, whatever the order; a step takes the first (`WalksGoOn`). That such a
walk exists for a set of any size needs that the set stays finite
(`MapStaysFinite`, and in `SetInv`).

`RepresentationsAlwaysOK` puts these invariants and the one of the union-find
together for `MCRuntime`.

**Iterations** (`Iterations`). What the algorithms below need of induction: a set
of numbers that has 0 and each successor has all of them (`SetInduction`), a
function defined from its value before exists (`RecursionExists`,
`GrowthExists`), sets that grow stay within what is closed under growing
(`IterationsStayWithin`), and a set that grows within a finite one is closed
after as many steps as that one has members (`IterationsClose`). The last is the
step that the code takes for granted whenever it iterates to a fixpoint.

**Union-find** (`ContainerProofs`). `UnionFindIsAPartition` and `ForestAlwaysOK`,
from `SizesAreWords`. The inductive `ForestInv` says that no set of items is a
circle: from every set a parent leads out, unless it is a root's. That is what a
merge of roots and the shortening of chains keep, and what lets the recursive
walk be an iteration. Nothing is said of the sizes but that they are words, so a
size that wrapped, or counts a part twice, does no harm.

**Dead code** (`AnalysisProofs`). `NothingDemandedIsDeleted`, from
`FunctionsAreWhole` (operands are instructions of the function). The inductive
`KeptWithOperands` says that an instruction that is there has the operands it had,
and that those are there; then the demanded ones, along any chain, are by
induction on its length.

**Data enumeration** (`TransformationProofs`). `MappingsStayInverse`, from
`EnumProgramsAreWhole` (code ends in a return, operands are lists, a fold has its
body). `MappingsOK` says that an encoder is onto `0 .. n - 1`, with the number of
its keys for `n`, and that a decoder which is built is a sequence of those keys,
each at its number. The uses of an instruction are translated one after the
other, in no known order; each leaves that as it is (`TranslationKeepsMappings`).
That they are finitely many needs that the function runs at a line that it has,
which is what `StackOK` keeps: what is below the top of the stack is at a fold.

**Promotion of a global** (`TransformationProofs`). `LocalsReplaceTheGlobal`, from
`ProgramsAreWhole` (calls are of functions that are there, code ends in a
return, and each fold has a body of its own, as SSA construction leaves it:
`SSAConstructionPass.cpp:263`; a function that is called and folded would lose
the edge of the fold). `GlobalInv` relates the call stack to the paths that the search found:
each call is of a function below all the active ones (`CallsGoDown`); the value
of the global is the local of the call that stored it and of every call above it,
as far as the functions between lie on a path (`OwnerHandsDown`). At a load the
path from the owner down the stack is one that the search must have found.

**Liveness and updates in place** (`AnalysisProofs`). `LivenessIsProved`, from
`ProgramsAreWhole` (a function is finite, its control stays within it). That
nothing dead is recorded is `RecordsNeeded`, inductive over the visits in
whatever order. That nothing needed is missing: `Needed` is the least set that
has the uses and is closed against the edges (by `IterationsClose`), and a
fixpoint of the transfer functions is such a set but for the PHIs that are
carried round a loop.

`UpdatesInPlaceAreSafe` is what the two analyses are for: when liveness misses
nothing, no PHI is carried past its own, every version is used and the verifier
accepts the function, then a run that updates objects in place finds in each
operand the value the function in SSA form has there. It is from
`ProgramsAreInSSA` (one definition of each value, uses dominated by it, updates
of an object that is there, and neither folds nor RetPHIs, which
`verify_linearity` does not follow). The inductive `RunsInPlace` says of every
moment of a run that values which refer to one object are in one part of the
partition (`ObjectsAreParts`) and that what is needed from here on was not
overwritten (`NeededIsThere`). The step that matters is an update: were another
value of its object needed afterwards, it would be live there
(`FixpointHoldsNeeded`), and so would the update's own result be where the other
one is (`VersionIsNeeded`): two live values of one part, which the verifier
refuses (`OneOfEachPart`). That the parts are closed under what updates, PHIs and
copies relate is `PartFacts`, again by `IterationsClose`.

`OuterIndicesFitTheirTypes` is about the walk of `CoercePass` down a nested
access. The walk keeps one object and forgets, at a collection, to go on to its
element; the reference, `Accessed`, goes all the way. The invariant
`WalkIsExact` relates the two: up to the first collection the object is what is
accessed, from there on it is a collection, so the pass never meets an object of
an unknown type, and what is below the first collection is what the theorem
leaves out. It assumes `AccessesAreTyped`: an index finds a collection or a field
(`getFieldType` and the visitors of `TypeCheck` assert it).

**Live-out insertion** (`LiveOutProofs`). `CallersSeeTheLatest`, from
`LiveOutProgramsAreVersioned` (SSA form, one return, one version of an argument
at a time). Two things are proved and joined by `LiveOutInv`. What the pass finds
is the version at the return, `Final` (`FoundIsFinal`): what is gathered from an
argument are its versions (`ReachingIsVersions`); of those that dominate the
return no other is last in its block after it (`LastInItsBlock`) or postdominates
it (`LastIsAfter`), since from the block of any other the blocks that do not end
with `Final` could not be left again and the return is among what is reached; and
`Final` postdominates them all unless control may get where it does not return any
more (`LastPostDominates`). So the second search, in the return's own block, finds
`Final` or nothing. And an execution keeps the versions (`RunsWell`): what
`VersionAt` names at the current point stands for the argument's object as it was
written last, and only versions of an argument stand for its object; this is why
an update through a value changes the version of the right argument. `PassInv`
says that each metadata left is of a visited argument, at `Final`.

**Type inference** (`AnalysisProofs`). `TypesComeFromCallers`, from
`ModulesAreWhole` (functions are finitely many, a call and a fold have an operand
for each argument, nobody calls main) and `DepthAssumption` (the bound of the
recursion exceeds the number of functions). `InferenceInv` keeps with everything
that is inferred the reason for it: a type comes along a call, an argument is left
untyped when nothing that is passed to it has a type (`ArgumentIsJustified`), and
a return is typed when the first thing that the fold passes is
(`ReturnIsJustified`). Each call of `infer` on the stack has inferred the arguments
before the one it is at, and what it has looked at of the calls is untyped
(`IsAhead`); so when the walk has ended every argument is inferred
(`AllAreInferred`), and a run that is complete has typed all that is one call
further. That the types which come to an argument are closed against calls is
`AllTypesAreClosed`, by `IterationsClose`. The stack goes from each function to
its callers, so by the pigeonhole principle a stack deeper than the functions has
one twice, and that one is among its own callers (`TooDeepIsACircle`).

Only model-checked: the analyses and transformations that are not named above,
among them `type_of` (`TypesAreExact`), and of data enumeration which values are translated and how parameters share a class. Out of the prover's reach
are the liveness properties (`Terminates`, `LoweringEnds`, `EverythingEnds`) and
what is defined with `RECURSIVE` operators: all properties of `Lowering`,
`Linking`, `Types`, `Operands`, `MutateType` and `BoundsChecks`.

## 5. Not modelled

`PROJECT.json` lists every part with its status. Of the parts modelled:

* SSA construction: the cloning of shared fold bodies, debug information, the
  coercion of value keywords and the cast of closed integers
  (`SSAConstruction.cpp:404-419`). An object that one fold closes on twice, or that
  is passed twice to one call: both operands keep the version before the
  instruction, while a sequence of instructions gives the second the version of the
  first.
* SSA destruction: the erasure of types and the renaming of functions. All folds
  of a function call one function. Coalescing and the lowering of accesses are
  two modules, since the one does not look at indices and the other not at
  versions.
* Lowering of accesses: arrays. Each `memoir_end` has one use, since
  `visitEndInst` resolves the first only; so an index and the bound of a range are
  not one value, for which `contextualize_end` compares values and would leave the
  index undiminished.
* Linking: the text of the C++, the compiler that is called. `LinkedIsEnough`
  leaves out the shapes of nesting that the code misses (`InFieldOfInner`,
  `IsField`).
* Dead code that stays, as the lost worklist leaves it: `DemandedIsKept` says what
  is kept, not what is deleted.
* Type inference: callers that pass different types. The code asserts the first it
  finds and compares none; `InferredFromCallers` asks that the type is that of some
  caller.
* LLVM's dominator tree, frontiers and verifier, and Boost's, Abseil's and the
  standard library's containers are external: modelled by what the code uses.
* The maps and sets: the build with `BITSET_TRACK_SIZE`; a key that is the
  largest `size_t`. The other operations of the vector are single calls of the library and are in
  `Lowering`. A flat set's `insert_input` of the set itself, which hands
  Boost a range of the set it changes, is not among the program's steps.
* Live-out metadata: the number of an argument is stored in 8 bits
  (`LiveOutMetadata.cpp:33`); functions here have few arguments.
* Data enumeration: the offsets of tuples, the heuristic of benefits (any
  sharing is allowed), the reuse of mappings in recursive functions, updates of
  cloned code; the monomorphization of selections is compiled out (`#if 0`). The
  types that are mutated are in `MutateType`.
* Promotion of globals: recursion through a function that loads; functions that
  are called as well as folded over.

Of the rest: the front ends have declarations only; passes, options and scripts
register and call; names and metadata are tables; `graph_lite.h` and `llvm/src`
are third-party; a few transformations are not built.

## 6. Plan

In the order of what matters most to the program's meaning:

1. `LiveRanges`: constraints on ranges in topological order, against an execution.
2. Lambda lifting and defunctionalization.
3. The remaining support containers.

To be proved next: the first theorems of each new module.
