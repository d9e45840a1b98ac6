# A TLA+ model of TFA

TFA finds the targets of indirect calls in LLVM bitcode by alternating type
analysis and data-flow analysis. These modules model the program from the files
it loads to the tables it fills: the parallel load and the pass driver, the
tables of functions and the type maps, the type analysis of a call, the alias
graph the data flow is built on, the TBAA test that refines it, the worklist
that follows values through the program, the threads that prune targets, the
loop that alternates the analyses, and the database. TLC checks small
instances; TLAPS proves the main invariants for all values of the constants.
Paths below are relative to `src/src/lib/`.

## The system

`main` (`Analyzer.cc`) loads the bitcode files with five OpenMP threads, runs
three module passes (TypeBuilder, CHABuilder, CallGraph), then rounds of four
passes, and writes the result to a database. All parts share one
`GlobalContext`.

| Component | State it keeps | Operations | Interacts through | What makes it correct |
|---|---|---|---|---|
| Loader, pass driver (`Analyzer.cc`) | `Modules`, `ModuleMaps`, one `LLVMContext` per module | parallel parse, `IterativeModulePass::run` | fills `GlobalContext` | every readable module once, passes reach a fixpoint |
| TypeBuilder | `GlobalFuncs`, `Global_Unique_Func_Map`, struct names, address-taken functions | `doInitialization`, `matchStructTypes`, `checkLayeredDebugInfo` | tables read by everything | one definition per symbol, names agree across modules |
| CHABuilder | class hierarchy, vtables | collect, build, map | read by `getTargetsInDerivedClass` | no index outside a vtable, every overrider found |
| CallGraphPass | `typeFuncsMap`, `typeTransitMap`, `typeConfineMap`, `typeEscapeSet`, `Callees`, `ICallees`, `Callers`, `Global_MLTA_Reualt_Map` | `doInitialization`, `doModulePass`, `findCalleesWithMLTA`, `escapeHandler`, `oneLayerChecker` | writes the call graph | targets within the types; escapes sound |
| Alias graph (`AliasContext`) | `NodeMap`, nodes with `aliasclass`, `TBAATag`, `ToNodeMap`, `FromNodeMap` | `HandleInst` and its handlers, `mergeNode` | one context per analysed function or call | classes partition the values; edges inverse; accesses stay resolved |
| Worklist (`interCaseHandler`) | values to analyse and analysed | one case per kind of value | follows `Callees`, `Callers` | every alias visited, or failure reported |
| FuncAliasAnalysis | `FuncInfluenceMap`, `SucceedFuncSet`, failed and `__symbol_get` sets | forward from each address-taken function, then prune | narrows `ICallees`, threads with a lock | a pruned target is not reached; no use forgotten |
| ICallAliasAnalysis | per-call outcome | backward from each indirect call, intersect | narrows `ICallees` | result within the type-based targets |
| oneLayerHandler, escapeHandler | `typeEscapeSet`, per-call type result | trace one-layer calls; explain escapes; resolve again | rewrite `Callees` and `ICallees` | what is added is counted, result followed |
| Loop of `main` | `icallTargets`, round counts | four passes, test | | it ends; it refines |
| TBAA (`utils/TBAATools.cc`) | type descriptors (metadata) | `mayAliasByTBAA` | guards `mergeNode`, filters targets | never separates overlapping accesses |
| Database (`utils/DBTools.cc`) | three tables | drop, create, batched insert | reads everything | complete rows |

The hard behaviours are `mergeNode`'s recursion in the middle of an edge update,
a worklist over a program with recursion whose stops must not hide what was not
followed, the threads of FuncAliasAnalysis with two reads outside the lock,
views of one symbol through several modules, tables that depend on the order in
which modules were loaded, the order in which passes overwrite each other's
results, the comparison of metadata from different contexts, and an update of
several tables that may stop halfway.
`PROJECT.json` lists each hazard at its line.

## Modules

| Module | Models | State and actions |
|---|---|---|
| `AliasGraph` | `AliasAnalysis/InstHandler.cc`, `AliasAnalysisTools.cc` | The five maps of a context; `stack` holds the frames of `mergeNode`. One action per instruction handler (`HandleInst(i)` on a call of the constant `Calls`), one per step of a merge (`MergeValues`, `MergeTo`, ...). Moves, geps, casts, phis, selects and call arguments are all `HandleMove`. |
| `AliasClasses` | what a context promises | `classes`; values enter, join, classes unite. Abstract specification of `AliasGraph` (refinement mapping: the nonempty alias classes). |
| `AliasGraphTBAA` | two builds of the context, with and without `ENABLE_TBAA_ALIAS_REFINEMENT` | two instances of `AliasGraph` that take the same handler calls. Each then does its merges; neither sees the other's, so that the plain one goes first in the model loses nothing. |
| `Worklist` | `AliasAnalysis/InterAliasAnalysis.cc`, `HandleFunc` and `HandleICall` | `LV` is the list of values to analyse, `Analyzed` the ones taken, `LU` and `GU` the users of the loop in progress, `skip` the values an inner loop marked, `success` and `failreason` the outcome, `pc` the loop. `clusters` are the sets of connected values. `start` is the function or call analysed, `limit` is `MAX_ANALYSIS_NUM`. One action per user of a function, per case of `interCaseHandler`, per callee bound, caller entered and use of a global. `NothingLeftOut` is about what was connected, listed and counted as analysed between two values. |
| `TypeMaps` | `CallGraph/CallGraph.cc`, `CallGraphTools.cc`, `LayerAnalysis.cc`, `InitinGlobal.cc`, `TypeAnalysis.cc` | `typeFuncsMap`, `sigFuncsMap`, `typeConfineMap`, `typeEscapeSet` and the results. `doInitialization(m)` walks every store and initializer of a module, `doModulePass(m)` resolves its calls; `findCalleesWithMLTA` is an operator on the maps. `code` is the program, chosen at the start. |
| `Traces` | `CallGraph/EscapeHandler.cc`, `OneLayerHandler.cc`, `AliasAnalysis/ICallDFAnalysis.cc` | Extends `TypeMaps` with the two passes that trace values: `oneLayerHandler(c)` and `escapeHandler(l)` on what `pass` has left in `todo`, in rounds. `Trace` is the walk both do, to the values it has met and whether it gave up; `Callers` also has calls a target has left. |
| `FuncAlias` | `AliasAnalysis/FuncAliasAnalysis.cc`, lines 14-213 | One round. `pc`, `job` per thread; `lock`; the shared sets. An action per statement between two lock operations; a critical section is `SetLock` then its body. |
| `RefinementLoop` | loop of `main`, `findCalleesWithMLTA`, the four passes' writes | `ICallees`, `Callees`, `typeEscapeSet`, the maps of the types, per-call results and counts. One action per call and pass, `ExplainEscapes`, an end of each pass with its own recount (`EndFuncAlias`, `EndICallAlias`, `EndOneLayer`, `EndEscape`), `Test`. Type analysis of a call is the operator `findCalleesWithMLTA`, layer by layer. |
| `TBAATags` | `utils/TBAATools.cc`, `mayAliasByTBAA` | The descriptors, the two tags, the two ancestor chains being built, the answer. One action per stage. `Subobjects` and `Derived` say, without the code, what a byte is part of and what the struct-path rule derives it from; `Seen` is the rule as far as the code can follow it. |
| `Loader` | `Analyzer.cc`: `main` up to the co-analysis loop, `IterativeModulePass::run` | `pc`, `file`, `seen` per thread, `lock`, `Modules`; then `step` (the pass), `stage`, `at` (the module), `changed`. `push_back` is the read and the write it consists of. |
| `Symbols` | the tables of functions of TypeBuilder and CallGraphPass, and the hashes they are kept by | One action per pass and module (`TypeBuilderInit`, `CallGraphInit`, `CallGraphModulePass`). |
| `Database` | `utils/DBTools.cc` | The tables, the query to be made, the statements to execute. One action per query, which works or fails as a whole. |
| `Pipeline` | the program from its files to its tables | `Loader`, `Symbols` and `Database` composed: a step of the pass driver is the pass's work on the module at that position; a run follows another with the same database. |
| `AliasPrograms`, `WorklistPrograms`, `MC*` | | programs and descriptors for TLC |
| `*Proofs` | | theorems |

`Loader` and `Symbols` give the order in which modules fill the tables,
`TypeMaps` what they say of a call's layers, `Traces` what the type passes of a
round make of it; `AliasGraph` says how one context
works, `Worklist` how far it is extended, `FuncAlias` how the contexts of many
functions are combined, `RefinementLoop` how the rounds follow each other, and
`Database` what is kept of it.
What `FuncAlias` and `RefinementLoop` leave open (what `HandleFunc`,
`HandleICall` or a trace finds) is any value of the right shape, so their
properties do not rest on the quality of the analyses; `Worklist` and `Traces`
say what that quality is. `Traces` in turn takes the data-flow passes of its
rounds to fail for every call, which leaves the most to the type passes.

`Worklist` cuts the alias graph down to which values are connected:
`getClusterValues` follows edges both ways, so this is all the worklist sees of
it, except for the merges the TBAA refinement blocks, which only `AliasGraph`
has. A pointer set of the code is visited in the order of its addresses; the
model takes its values in any order.

A layer of `TypeMaps` is a field of a struct type, whatever it is hashed to.
With the opaque pointers of the LLVM the repository builds against no struct
type is cast to another, so `typeTransitMap` has no struct in it.

Each `LLVMContext`-dependent identity is explicit: `FuncAlias` distinguishes the
function pointer, the GUID the failures are kept by, the name `__symbol_get`
uses and the definitions `getGlobalFuncs` returns; `Symbols` has a `Function`
for every module that mentions one and hashes made of name, type and place;
`TBAATags` gives a type one descriptor per module.

The unlocked lookups of line 55 and 67 may miss an element while another thread
is inserting; they are a choice of both outcomes then. `operator[]` on
`Callees` and `Callers` (`InterAliasAnalysis.cc:191,502,554`) inserts missing
keys without a lock; what a lookup disturbed by this would change is what
`HandleFunc` finds, which is arbitrary. Of failures the code notices, a database query that
fails and a file that cannot be read are modelled, and the program may be run
again on what the last run left in the database; it persists nothing else.

## Runs

| Run | Shows | Bounds |
|---|---|---|
| `calls` | `Partition`, `RecursionBounded`, `ClassesOnlyUnite` (the refinement) on linked structures among allocations, calls, copies, returns and constants | 7 values, 6 of 16 handler calls in any SSA order |
| `levels` | `EdgeMapsAgree`, `EdgesJoinLiveNodes`, `AccessesResolved`, `MovesUnited` between handlers | 7 values of three levels, 7 of 12 calls |
| `tbaa_levels` | the refinement adds no alias | the same program, 5 calls |
| `worklist` | `FlowFound`: an analysis that does not give up has found every value the paths of the program lead to (of a function that is looked up with `__symbol_get`, only when it is searched for from the call: it has no user there, for which `Global_symbol_get_funcSet` exists); `NothingLeftOut`: and has followed the users, callees, callers and initializers of every value it counts as analysed; `Terminates` | every call and function of one program as the start, with `MAX_ANALYSIS_NUM` 1, 4 and 30; paths of up to 16 steps |
| `typemaps` | `CallsCovered`: in programs that access memory by name, a call has every function it may call as a target, but for two losses stated below; `CallsSeeAllModules`; `TracesCover`: tracing and explaining escapes keep those targets | every program of up to three of 19 stores and initializers and of any two of 27, in two modules taken in any order; seven calls; two rounds. 1320 of the 1348 programs access memory by name |
| `func_external` | two threads, a definition and a declaration of one function: `ScheduleIndependent`, `Finishes` | 2 threads, 3 functions, 2 calls, every finding |
| `func_symbols` | a definition, a declaration of it, a static of the same name, and `__symbol_get`: `PrunedJustified`, `NoUseForgotten` | 2 threads, 3 functions, 1 call |
| `tags_large` | `MatchesRule`: the answer is the struct-path rule but for what lies beyond a struct of one field; `OverlapFound` | all pairs of tags of two structs, one in the other, of one or two and of one to three fields, one of which may be of an unknown format, with another module's scalars |
| `loop` | `RoundsBounded`, `ResultFollowed`, `Terminates` | a layered, a plain and a virtual call, 2 functions, threshold 1 |
| `pipeline` | `LoadedOnce`; `SitesResolvedOnce`, `CopiesAgree`, `NamesLeadToDefinitions` whatever order the files were loaded in; `Reported`, `TablesOfOneRun` after a failed query and a second run; `Terminates` | three files, any of them unreadable in each of two runs, two threads, one failing query, batches of 2 rows |

Six or seven handler calls suffice for a merge inside a merge inside a merge,
which needs three loads or stores on each side; programs where values reach
themselves are where the nested merge meets the node the outer one is updating.
The worklist's program has a wrapper, recursion, returns, globals whose
initializers name each other, aggregates, a function looked up by its name, and every value the analysis gives up
on; its paths lead nowhere new after 15 steps, and the
limits stop the analysis at once, in the middle, and never. Three
items make a type program in which one store confines a layer to another whose
functions come from a third place, maybe in a module not yet initialized, or an
escape with one store that is explained and one that is not; the second round
traces the calls that the first has resolved anew.
Two threads are enough for a search that races an insertion, and three functions
for two views of one symbol beside an unrelated one. Three files give a header's
function in two modules beside one that only uses it, and two runs show what the
first leaves in the database. The threshold of 10000 is a
constant: with 1, every reduction is followed by another round, so the instance
has more rounds than the program would. `CHECK_DEADLOCK FALSE` is set where the
modelled program ends: when the menu of handler calls is used up, the round is
done, or the loop ended.

`EdgeMapsAgree`, `EdgesJoinLiveNodes`, `AccessesResolved`, `MovesUnited` and
`RefinementAddsNoAlias` are about programs whose values have pointer levels
(`Levelled`): a load or store connects values one level apart, a copy values of
one level. Without levels they fail on linked structures, where a nested merge
may reach the edge that the outer one has erased and restores afterwards, and
connected nodes need not be one. With the six handler calls of

    y = z;  z = *y;  *a = b;  *b = p;  q = y;  q = a

each of the first four fails for some order of the calls. The code states no
claim that this contradicts, so it is described here and not as a finding;
`RefinementAddsNoAlias` fails for another reason as well, the first observation.

### Disagreements with comments and documentation

| Run | The program | The claim |
|---|---|---|
| `tags_modules` | the same field accessed in two modules is found disjoint from itself: descriptors are compared by address (`TBAATools.cc:223`) and every module has its own context (`Analyzer.cc:224`) | `TBAATools.cc:196` |
| `pipeline_statics` | with static functions of one name and type in two modules, a direct call of the one leads to the other (`CallGraph.cc:742`), since `funcHash` is the type and the name (`Common.cc:354`) | `CallGraph.cc:600`, `:740` |

### Observations

Met while modelling. They have no run of their own: no comment, test or document
says the contrary, except the one quoted with `CallsCovered`, which names no
condition.

* A blocked merge keeps two nodes apart, and a later `HandleMove` may unite
  classes the plain analysis leaves alone: on linked structures the refinement
  is no subset (`Config.h:67` describes it as one more condition on a merge).
* Accesses with provably disjoint tags stay in one class when a move put their
  pointers there before they were tagged, since TBAA only blocks merges
  (`AliasAnalysisTools.cc:41`). Nothing remembers that a function was treated as
  "generic" (`InstHandler.cc:232-238`): the next tagged store or merge tags it.
* A struct with one field is read as a scalar descriptor (`TBAATools.cc:142`,
  against the layouts described at `:52` and `:123-133`), which has no parent but
  at offset 0. At any other offset of it the chain ends, and what lies beyond is
  found disjoint: with `T` a struct whose one field is a struct of a `char` and an
  `int`, an access of the `int` through `T` and one through `char`, or through the
  inner struct. `MatchesRule` says exactly where the answer departs from the rule
  (`TakenForScalar`, `Seen`); `OverlapFound` is about accesses that meet no such
  link on the way (`RightlyTaken`), and fails without that condition.
* A successful analysis is filed under the definitions of the function's name
  (`FuncAliasAnalysis.cc:135`), and here, unlike in CallGraphPass,
  `getGlobalFuncs` (`AliasAnalysisTools.cc:193`) finds none for a function no
  module defines. Such a function is erased from the calls its own analysis
  reached; `PrunedJustified` is about the functions that are defined.
* `HandleFunc` inserts the parameters of a function's direct callees into the
  analysed list (`FuncAliasAnalysis.cc:272`), so they are not followed again:
  what they pass on is found only through the callee's body. A failure for the
  number of values there keeps the reason "none" (`:300`), which the tables
  report as not analysed.
* `CallsCovered` is what `CallGraph.cc:644` promises (the type analysis
  is to find targets "concervatively"), and needs `AccessedByName`: a store is through a layer that
  the walk from its pointer names, or to a variable by its name.
  `typeConfineInStore_new` (`CallGraph.cc:58-207`) records an escape for the
  layers that walk names, so what is stored through an argument or a loaded
  pointer, which names none (`LayerAnalysis.cc:101`), is recorded nowhere unless
  it is a function.
  A walk in `Recall_Mode` ignores that the pointer of a load is unknown
  (`LayerAnalysis.cc:140`), so what is loaded through an argument may count as
  known with an empty list (`CallGraph.cc:70`), and then nothing is confined or
  escapes. `VisitedSet` answers true for a value it has met
  (`LayerAnalysis.cc:115`), also for a pointer that failed before and for the size
  of an alloca, a constant all allocas share: the address of a second variable
  counts as known. `getBaseType` takes a pointer for one to something composite
  if it only may be, and the store is ignored (`CallGraph.cc:95`).
* Explaining an escape may give a call targets it did not have, and the type
  passes restore what the data flow removed (`EscapeHandler.cc:82`), so the
  rounds of `src/README.md:3` do not only refine. `RoundsBounded` shows they end.
* A layer without functions clears the set the layers after it start from
  (`TypeAnalysis.cc:464`): with a call through a choice of `A.cb` and `B.cb`, and
  functions stored in `B.cb` only, the result depends on which is first
  (`CallsCovered` leaves these calls out, `TracesCover` the programs that have
  one, by the history `lost`). `typeConfineInInitializer` skips
  initialized pointers outside aggregates (`InitinGlobal.cc:35`), and
  `CallGraphPass` globals whose name contains `.str.` or begins with `_ZTV`, `_ZN`
  or `_ZTI` (`CallGraph.cc:483-495`), and with them their functions.
* `escapeChecker` and `oneLayerChecker` take an alloca for a value without
  sources (`EscapeHandler.cc:389`, `OneLayerHandler.cc:285`), and what a load
  reads for what is stored through the same pointer value. What another function
  stores through a pointer to the alloca is missed, the escape counts as
  explained, and the calls resolved again may lose it: `TracesCover` is about
  programs that access an alloca by its name (`ByName`).
* A trace adds the functions it meets even if the layer stays escaped, up to the
  first store that is not explained (`EscapeHandler.cc:42`), in the order of the
  stores' addresses: the functions of a union, which any call may then have,
  depend on that order. `escapeHandler(l)` takes any such prefix.
* `caller_table` keeps one set per hash, and the hash of a set is the sum of its
  names' hashes (`DBTools.cc:342`): two sets with equal sums are reported as one.
  `Reported` is checked with hashes whose sums differ.

## Fairness

`FuncAlias` assumes weak fairness of every thread's next step: the operating
system runs the threads of an OpenMP team, and the lock is taken at most three
times per iteration, so a waiting thread gets it. `Pipeline` assumes the same of
the loading threads, and that `main` goes on; running the program again is not
forced. `RefinementLoop` and `Worklist` assume weak fairness of the next step of
a sequential program. In `RefinementLoop` a pass is a loop over a finite map
that ends: the recursion of `mergeNode` by `RecursionBounded`, the worklists by
`Terminates` of `Worklist`.

## Proofs

Checked by `tlapm`, for every value of the constants that satisfies the named
assumptions of the module (well-typed inputs; finite sets where targets are
counted; a thread exists).

* `AliasGraphProofs`: `TypeCorrect`, `PartitionAlways`, `ClassesRefined`
  (`AliasGraph` implements `AliasClasses`). `Partition` is not inductive: a merge
  in progress names nodes on its stack, and one of an unborn node would give a
  value to a class it is not in. `Inv` adds that a class is only held by the
  node of a value that has entered (`ClassesBorn`), that edges and frames name
  such nodes only (`EdgesBorn`, `StackBorn`). Each handler is one of three
  effects on the classes, and each effect has a lemma (values created alone,
  a value copied into a class, two classes united).
  `RecursionAlwaysBounded`, for any finite `Value` and any program, cyclic ones
  too: the frames at the bottom of the stack wait in the ToNodeMap half of
  `mergeNode` and those above in the other half, and `DepthOK` says that each
  half's frames are paid for by nodes that have lost their edge in that map.
  In the same module, `EdgeMapsAlwaysAgree` and `EdgesAlwaysJoinLiveNodes`, under
  `Levelled(lvl)`. `LevelInv` holds in the middle of every merge: the maps are
  inverse, an edge falls by one level (`Falling`), all frames that wait do so in
  one half and each is one level from the next (`Chained`), so that the ends of
  an edge that is to be put back are out of the reach of the merges before
  that, and a node without values has an edge only while a frame is at it.
  On it rest `AccessesAlwaysResolved` and `MovesAlwaysUnited`, under the same
  hypothesis. While merges are in progress an access may have no edge;
  `AccessInv` says which frame owes it one (`Owes`): a frame that will move,
  restore or merge it. `MoveInv` says that a copy is united or its merge is the
  one that is about to start. Both need that `HandleMove` and `HandleStore`
  skip nothing when their nodes are connected: with levels, connected nodes of
  one level are one (`ConnectedAlike`), and one level apart they are joined by
  an edge (`ConnectedNeighbours`).
* `AliasTBAAProofs`: `RefinementAlwaysAddsNoAlias`, under `Levelled(lvl)`, for
  any tags and any answers of `mayAliasByTBAA`. The theorems above hold of the
  plain context, which blocks nothing (`PlainUnblocked`). At rest its classes
  are closed: values that the handled calls make alike are one
  (`QuietJoins`). `FilterInv` says that the nodes and edges of the refined context
  lie within them at every step, and that the merge it was asked for is of
  alike values; then so are the nested ones, blocked or not (`MergeWithin`).
* `FuncAliasProofs`: `TypeCorrect`, `PrunedAlwaysJustified`,
  `UsesNeverForgotten`, and `ScheduleIndependence` under `OneSymbolPerName`.
  The invariant says who owns each loop iteration (`JobsOK`, `ResultsOK`), what
  each result implies about the sets it was recorded in (`SuccessOK`,
  `FailureOK`, `IgnoredOK`), and that pruning came after all of it (`PhasesOK`,
  `PrunedOK`). Neither lock nor mutual exclusion is needed for them: iterations
  write for their own function and the sets only grow; what is needed is the
  barrier. The lock itself shows in `Finishes` only.
* `RefinementLoopProofs`: `TypeCorrect`, `RoundsAlwaysBounded`,
  `ResultAlwaysFollowed`. `BudgetOK` carries the bound through a round: the
  targets a round started from plus what earlier rounds must have removed never
  exceed the pairs of a call and a function, although a round may add targets.
  `CountOK` says at which points of a round the count is that of the result, which
  the bound needs before the test only: it is the last pass that must count.

* `PipelineProofs`: first the loader, for any number of threads and files
  (`EveryFileLoadedOnce`). The invariant (`LoaderInvariant`) says that the lock
  is with the thread between taking and releasing it (`LockOK`), that nobody has
  pushed a module since a thread that is about to write read the list
  (`SeenOK`), and that every file handed out is with one thread, in the list, or
  unreadable (`FileOK`, `ListOK`). The program with its passes, updates and
  reruns implements the loader's specification (`PipelineLoads`), so
  `PipelineLoadedOnce` follows.
  `CopiesAlwaysAgree`: `CopiesAgree` is not inductive; `CopiesInv` adds how far
  each pass has come (`InitAt`, `ModuleAt`), that `UnifiedFuncMap` has for each
  hash the function of the first module before that position (`UnifiedOK`), and
  that a call that was skipped for another copy's has a kept copy that was
  resolved (`ResolvedOK`).
  `NamesAlwaysLead` and `SitesAlwaysResolvedOnce` rest on `TablesInvariant`,
  which says what each table has after k modules without the order of the
  modules. They have hypotheses about the program: a place tells the definitions
  of a name apart (`PlacesTell`), and hashes of calls do and linked names are one
  function (`SitesTell`, `NamesLinked`). Debug information gives this, which
  `src/README.md:41` asks for (`-g`); without it the hashes of two calls may be
  equal. `MCPipeline` assumes all three of its program, and TLC evaluates that.
  `callInfoHash` writes the line of a call and its number with nothing between
  (`CallGraphTools.cc:203-205`): line 12 and number 1 read as line 1 and number 21.
  That no two indirect calls of a function do is the assumption `DigitsTell`; with
  it, resolving the calls of a module at once is what the loop of the code does.
  The caller's name stands before the digits and is kept apart in the model, so a
  function `foo1` with a call in line 2 beside `foo` with one in line 12 is left out.
  Of the database: `DatabaseInvariant`, `TablesAlwaysOfOneRun`, `PipelineType`
  and `UpdateReports`. `DatabaseInv` has three parts: the statements left are the
  rest of the rows in order and the rows stored are those before them
  (`StoredOK`), each table's rows are of one run and no table is newer than one
  that is replaced before it (`RunsOK`), and what was filled without a failed
  query is complete (`FilledOK`). `UpdateReports` needs that hashes tell the
  target sets of the run apart (`HashesDiffer`): the code relies on it
  (`DBTools.cc:342`, see the observations), and the run checks it on its
  instance. The rows are cut into statements by a fold, so
  the lemmas about batches (`BatchesAreTheList`) are proved by induction over
  finite sets and natural numbers, in the form of a set that holds 0 and the
  successor of each of its members (`SetInduction`).
* `TBAATagsProofs`: `TypeCorrect`, `AnswerAlwaysMatches` (`MatchesRule`) and
  `OverlapAlwaysFound` (`OverlapFound`), for any set of descriptors that
  `WorldAssumption` admits. The rule is a recursive function (`Derived`), and so
  are the parts of a type and its root. That such a function exists, and so has
  its equation, is proved without induction: the least solution does it
  (`Unfolds`). What holds of every type is then proved of a lowest type for which
  it fails (`SomeLowest`), which `WellFounded` provides. `ChainOK` is the heart of
  the invariant (`TagsInvariant`): the links found so far, and all that the next
  one leads to, are what the code can see from the tag's start (`Seen`); a complete
  chain is `Seen` of its start. `SeenStep` is where the reading by the number of
  operands meets the kinds of descriptors: one step of it is one of the rule but
  at a nonzero offset of a struct of one field. Without such a link on the way
  `Seen` is the whole rule (`SeenAll`), on which `OverlapAlwaysFound` rests. Of the
  early answers, that on the offsets rests on no type deriving from itself
  (`DerivedOnce`), that on the roots on a chain having one root, the one every link
  of it has (`RootsAlike`). `LaidOut` and `WellFounded` are what a front end lays
  out: any number of fields, one after the other, none within itself. They exclude
  bit-fields, which share an offset, and neither theorem is about these.
  A scalar accessed by itself overlaps what derives from it, so nothing is said of
  `char` and the vtable pointer of C++, which derives from the root.
* `WorklistProofs`: `TypeCorrect` and `NothingLeftOutAlways`, for every program
  of finitely many values. `NothingLeftOut` holds between two values only, so the
  invariant says what each loop has done so far while it is in progress
  (`Progress`: `FollowingStart`, `FollowingUsers`, `FollowingCall`,
  `FollowingDeclaration`, `FollowingCase`): the users of a value are visited or
  waiting (`Visiting`), the callees that are not in `todo` are bound, and so on.
  `Shape` says what `pc` implies of the variables the loops share. What has been
  followed stays so because a step loses no cluster and nothing listed (`Kept`,
  `StillFollowed`). A break of a loop leaves something out, and the analysis has
  then given up for good (`StaysFailed`); `BreakOnly`, the mutant of `CheckSize`,
  is that break without the failure. The users through constants are the closure `Reached`, and connecting is a
  fold over pairs: both are functions on numbers or on finite sets, and the lemmas
  about them use induction in the form of a set of numbers (`SetInduction`,
  `ReachedClosed`, `FoldExists`).
  `NothingLeftOut` leaves out the parameters `HandleFunc` counts as analysed
  (`HandedDown`), which the observations are about.

* `TracesProofs`: `TypeCorrect`, `CallsAlwaysSeeAllModules`,
  `CallsAlwaysCovered` and `TracesAlwaysCover`, for every program that
  `CodeAssumption` admits: finite, typed, and of code that can be reached, where
  no chain of instructions is its own only source and what is initialized is a
  global's memory, no alloca's. The invariant says that what an initialized module
  adds is in the maps (`ItemsRecorded`, `FunctionsTaken`), that a resolved call
  has the targets of the maps (`CallsResolved`), and that no call is resolved
  while a module is left to initialize. `CallsCovered` then is about one state
  (`Whole`). What values may be, `MayBe`, is an iteration of `More`, and is shown
  to lie in every set of assignments that has `Itself` and is closed
  (`MayBeKeeps`). That set is: each walk that succeeds names what the values it
  visits may be (`Followed`), in that each function or address is in a layer the
  walk names or one of those is confined to (`Leads`), or such a layer has
  escaped, or the function is kept for all calls (`Kept`), or it is the address of
  something composite that the analysis ignores (`Composites`). A value in memory
  is there by a store whose pointer's walk names the layer (`StoredAt`), and
  `StoreRecorded` is what that store added to the maps: the layers of the value, or
  the escape; `InLayer` and `OutsideLayers` put them together, and `LoadedGood` is
  the step for a load. Precise walks and walks for recall are told apart by what a
  success says (`PreciseWalk`, `RecallWalk`). `AccessedByName` is used of `MayBe`
  only, for every assignment below it. Of the call itself, `ClearSteps` is the loop
  over `TyList`, which keeps a target for each layer unless one without targets
  clears the rest (`Loses`). The walk, the closures and the loop are recursive
  functions; that each exists is proved by building it (`VisitsExist`,
  `WithinExists`, `FindFacts`), in the same set form.

  `TracesCover` needs an invariant of its own beside that one (`RInv`): once the
  rounds have begun, and in the programs the property is about, the maps are
  `Whole` and every function a call may have is a target of it and has it as a
  caller (`Known`). `Whole` cannot say that a layer something unknown is stored to
  stays escaped, as `escapeHandler` takes that back; it says that such a layer has
  escaped or that each of those stores is `Explained`: a set of values that is
  closed under sources has the value stored, and its functions and layers are in
  the maps of the layer (`Held`). A trace that does not give up meets such a set
  (`TraceCloses`): the sources of what it has met are met too or wait in its list,
  and the bound on its steps never ends it, since each step meets a value that is
  new. `Known` is what makes the sources of a parameter and of a call's result
  complete (`TraceMeets`), and a closed set has all that its values may be
  (`TracedIn`), by the same argument on `MayBe` as for the walks.
  The passes then keep `Whole` because the maps only grow (`WholeGrows`), and
  `Known` because a call is left with what its trace met (`OneLayerRounds`) or is
  resolved again with maps that are `Whole` (`EndEscapeRounds`, `WholeCovered`).
  The lemmas of `CallsAlwaysCovered` are about `Whole`, so one argument serves both.

`Levelled` is satisfied by the program of `levels` and `tbaa_levels`: both MC
modules have an `ASSUME` that says so, which TLC evaluates.

Only model-checked: liveness (`Finishes`, and `Terminates` of three modules), which
like `ENABLED` is out of the prover's reach, and `FlowFound` of `Worklist`, which
is about the paths of one program (see the plan). The induction theorems of the
library take an operator, which the installed provers cannot instantiate: what is
proved of folds and recursive functions is proved in set form.

## Not modelled

* C++ virtual calls. `CHABuilder` takes functions out of a vtable only when they
  are casts, and `getCPPVirtualFunc` the class out of a cast of the object; with
  opaque pointers neither occurs, so no table is filled.
* The `__symbol_get` case of `escapeChecker`'s trace (`AliasGraph` and `Worklist`
  have the handler of such a call, `FuncAlias` its effect on the other analyses).
* The `SMDiagnostic` that all loading threads write to when a file cannot be read
  (`Analyzer.cc:204,225`), without the lock. Nothing reads it; what a race on its
  strings does to memory is not modelled.
* Names for literal structs from debug info (`TypeBuilder`), casts between
  struct types (`typeTransitMap`), variadic functions, vectors of functions, and
  the enhanced one-layer types.
* `FuncAnalysis`, `FuncTypeAnalysis` and `HandleFuncTypes`, whose results are
  only printed or not read; the command line, times, printing, source lines and
  macros, and the columns of the tables that only describe a row.
* `UnrollLoop.cc` (disabled by `Config.h`), `TestMethod.cc`,
  `CheckReturnCompType.cc` and `FuncDFHandler` are never run.

## Plan

1. Composition: `Worklist` as the finding of `FuncAlias`, and `Traces` with the
   data-flow passes that succeed, in place of the choices of `RefinementLoop`.
2. Names of struct types in `TypeBuilder`.
3. Proofs: `FlowFound` for every program. `NothingLeftOut` is the half of it that
   is about one value; the other half, that every value connected with the start
   is analysed, needs a hypothesis about constants that several functions share
   and about parameters that are covered while a call is bound.
