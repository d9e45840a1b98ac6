------------------------------ MODULE TypeMaps ------------------------------
(***************************************************************************)
(* CallGraphPass: the type maps doInitialization collects from the stores  *)
(* and the initializers of every module, and the indirect calls            *)
(* doModulePass then resolves with them, one module after the other.       *)
(*                                                                         *)
(* A layer is a field of a struct type, whatever its name is hashed to.    *)
(* With opaque pointers no struct type is cast to another, so              *)
(* typeTransitMap and funcTypeCastMap stay without structs and functions   *)
(* and are left out.  So are variadic functions, C++ virtual calls (see    *)
(* RefinementLoop), and vectors of functions.                              *)
(***************************************************************************)
EXTENDS Integers, Sequences, FiniteSets, SequencesExt, FiniteSetsExt

CONSTANTS
  Module, Value, Function,
  Call, ICall, \* Function has those whose address is taken
  callees,    \* of a direct call: what it names, if the program defines it
  arguments,  \* a call's
  parent, index, \* the function an argument is of, and its number there
  returned,   \* the values a function returns
  in,         \* the module of a function or an indirect call
  kind,       \* what a value is: see Kinds; memory of the heap is an alloca too
  operands,   \* a load's pointer; the values a cast, a phi or a select chooses from; the
              \* size of an alloca
  cell,       \* the memory a GEP, an alloca or a global points to
  composite,  \* allocas, globals and GEPs of a struct or an array
  Cell,
  Layer,      \* the fields nextLayerBaseType_new names: of a struct whose name is valid
  Union,      \* those of a struct updateStructInfo takes for a union
  defs,       \* a function's definitions: itself, or what getGlobalFuncs finds
  sig,        \* the type of a function or a call
  called,     \* a call's called operand
  Programs    \* the programs: sets of stores and of initialized fields and globals

Kinds == {"function", "argument", "call", "global", "alloca", "gep", "cast", "load", "phi", "select", "data"}
Items == [in : Module, what : {"store", "field", "scalar", "mangled"}, value : Value, at : Value \cup Cell]
Modes == {"Precise_Mode", "Recall_Mode"}
Sigs == {sig[x] : x \in Function \cup ICall}

ASSUME CodeAssumption ==
  /\ IsFiniteSet(Module) /\ IsFiniteSet(Value) /\ IsFiniteSet(Cell)
  /\ Union \subseteq Layer /\ Layer \subseteq Cell
  /\ in \in [Function \cup ICall -> Module]
  /\ kind \in [Value -> Kinds]
  /\ operands \in [Value -> Seq(Value)]
  /\ cell \in [{v \in Value : kind[v] \in {"gep", "alloca", "global"}} -> Cell]
  /\ composite \subseteq DOMAIN cell
  /\ defs \in [Function -> SUBSET Function]
  /\ called \in [ICall -> Value]
  /\ ICall \subseteq Call /\ DOMAIN callees = Call \ ICall
  /\ arguments \in [Call -> Seq(Value)]
  /\ DOMAIN parent = {v \in Value : kind[v] = "argument"} /\ index \in [DOMAIN parent -> Nat \ {0}]
  /\ {v \in Value : kind[v] = "call"} \subseteq Call
  /\ \A f \in DOMAIN returned : returned[f] \subseteq Value
  /\ Function = {v \in Value : kind[v] = "function"} /\ Function \cap Cell = {}
  /\ \A v \in Value : kind[v] \in {"load", "alloca", "select"} => operands[v] # <<>>
  /\ \A v \in Value : kind[v] = "load" => Len(operands[v]) = 1
  /\ \A v \in DOMAIN cell : cell[v] \in Layer => kind[v] = "gep"
  \* What is no instruction starts every chain of them, in code that can be reached.
  /\ \A V \in SUBSET {v \in Value : kind[v] \in {"cast", "phi", "select", "load", "alloca"}} :
       V # {} => \E v \in V : ~(ToSet(operands[v]) \subseteq V)
  /\ \A program \in Programs : program \subseteq Items
  /\ \A program \in Programs : \A i \in program :
       IF i.what = "store" THEN i.at \in Value
       ELSE i.value \in Function /\ i.at \in Cell \ {cell[a] : a \in {v \in Value : kind[v] = "alloca"}}

VARIABLES
  code,                 \* the program
  fresh, unresolved,    \* the modules left to doInitialization and to doModulePass
  typeFuncsMap, typeConfineMap, typeEscapeSet,
  sigFuncsMap, Global_EmptyTy_Funcs,
  typeResult, ICallees  \* of the calls resolved so far

maps == <<typeFuncsMap, typeConfineMap, typeEscapeSet, sigFuncsMap, Global_EmptyTy_Funcs>>
mapVars == <<code, fresh, unresolved, maps, typeResult, ICallees>>

MapsTypeOK ==
  /\ code \subseteq Items /\ fresh \subseteq Module /\ unresolved \subseteq Module
  /\ typeFuncsMap \in [Cell -> SUBSET Function]
  /\ typeConfineMap \in [Layer -> SUBSET Layer] /\ typeEscapeSet \subseteq Layer
  /\ sigFuncsMap \in [Sigs -> SUBSET Function] /\ Global_EmptyTy_Funcs \in [Sigs -> SUBSET Function]
  /\ typeResult \in [ICall -> {"none", "MissingBaseType", "OneLayer", "TwoLayer",
                               "NoTwoLayerInfo", "TypeEscape", "MixedLayer"}]
  /\ ICallees \in [ICall -> SUBSET Function]

-----------------------------------------------------------------------------
(* Layers. *)

\* A GEP names a layer, when its struct has a valid name; the others fail.
GEPWithoutNameCheck(v) == {cell[v]}
getGEPLayerTypes(v) == {cell[v]} \cap Layer

StoredTo(p, program) == {i.value : i \in {j \in program : j.what = "store" /\ j.at = p}}

\* What a value is one of, where the walk goes on.
OneOf(v, program) ==
  CASE kind[v] \in {"cast", "phi", "select"} -> ToSet(operands[v])
    [] kind[v] = "load" -> {s \in StoredTo(operands[v][1], program) : kind[s] # "data"}
    [] OTHER -> {}

\* What the walk follows from v: a load's pointer and what is stored through it.
Follow(v, program) ==
  CASE kind[v] \in {"cast", "phi", "select", "alloca"} -> operands[v]
    [] kind[v] = "load" -> <<operands[v][1]>> \o SetToSeq(OneOf(v, program))
    [] OTHER -> <<>>

\* The walk ends there before it has visited the value.
Unvisited == {v \in Value : kind[v] \in {"argument", "call", "global", "function"}}

\* The values to visit, the next one first, each with whether the walk fails if it does.
\* A precise walk fails where the pointer of a load does; one for recall does not mind.
Waiting == [value : Value, counts : BOOLEAN]
Walks == [ok : BOOLEAN, TyList : Seq(Cell), visited : SUBSET Value, todo : Seq(Waiting)]
Open(walk) == {i \in DOMAIN walk.todo : walk.todo[i].value \notin Unvisited \cup walk.visited}

\* The rest fails alike in both modes, and a precise walk that stops at its first failure
\* loses only a TyList that is not read.  Does the j-th value that follows on from's count?
Counts(from, j, mode) == from.counts /\ (kind[from.value] = "load" /\ j = 1 => mode = "Precise_Mode")

\* list follows on the value of from, which names layers; rest waits behind it.
Fails(from, list, layers, mode) ==
  \/ from.counts /\ (kind[from.value] = "data" \/ (kind[from.value] = "gep" /\ layers = {}))
  \/ \E j \in DOMAIN list : Counts(from, j, mode) /\ list[j] \in Unvisited
After(walk, from, list, layers, rest, mode) ==
  [ok |-> walk.ok /\ ~Fails(from, list, layers, mode),
   TyList |-> walk.TyList \o SetToSeq(layers),
   visited |-> walk.visited \cup {from.value},
   todo |-> [j \in DOMAIN list |-> [value |-> list[j], counts |-> Counts(from, j, mode)]] \o rest]
Visit(walk, mode, program) ==
  LET i == Min(Open(walk))
      from == walk.todo[i] IN
  After(walk, from, Follow(from.value, program), IF kind[from.value] = "gep" THEN getGEPLayerTypes(from.value) ELSE {},
        SubSeq(walk.todo, i + 1, Len(walk.todo)), mode)

\* A walk goes on until nothing is open, which takes no more steps than there are values.
nextLayerBaseType_new(mode, program) ==
  LET visits[n \in Nat] ==
        [walk \in Walks |-> IF n = 0 \/ Open(walk) = {} THEN walk ELSE visits[n - 1][Visit(walk, mode, program)]]
  IN visits[Cardinality(Value)]

\* The walk from v: whether it succeeded, TyList and VisitedSet.
Start(v) ==
  [ok |-> v \notin Unvisited, TyList |-> <<>>, visited |-> {}, todo |-> <<[value |-> v, counts |-> TRUE]>>]
Walk(v, mode) == nextLayerBaseType_new(mode, code)[Start(v)]
TyList(v, mode) == ToSet(Walk(v, mode).TyList)

\* Does getBaseType find a composite type v points to?
BaseOf(v) ==
  CASE kind[v] \in {"load", "phi"} -> ToSet(operands[v])
    [] kind[v] = "select" -> {operands[v][1]}
    [] OTHER -> {}
Bases[n \in Nat] ==
  [v \in Value |-> IF n = 0 THEN {v} ELSE UNION {{u} \cup BaseOf(u) : u \in Bases[n - 1][v]}]
getBaseType(v) == Bases[Cardinality(Value)][v] \cap composite # {}

-----------------------------------------------------------------------------
(* What a store or an initializer adds to the maps. *)

Nothing == [funcs |-> {}, confined |-> {}, escaped |-> {}, empty |-> {}]

\* A layer of a union or of a struct without a name is not trusted.
updateStructInfo(layer, F) == IF layer \in Layer \ Union THEN {} ELSE F

\* An initializer that is no aggregate is skipped, and so is a global whose C++ name is
\* mangled.
typeConfineInInitializer(i) ==
  IF i.what = "field"
  THEN [Nothing EXCEPT !.funcs = {i.at} \X defs[i.value], !.empty = updateStructInfo(i.at, defs[i.value])]
  ELSE Nothing

FunctionStored(i) ==
  LET to == Walk(i.at, "Precise_Mode") IN
  IF to.ok THEN [Nothing EXCEPT !.funcs = ToSet(to.TyList) \X defs[i.value],
                                !.empty = UNION {updateStructInfo(l, defs[i.value]) : l \in ToSet(to.TyList)}]
  ELSE [Nothing EXCEPT !.empty = defs[i.value]]

propagateType(at, from) == {e \in TyList(at, "Recall_Mode") \X from : e[1] # e[2]}

\* Not what the code does: what is known in part escapes nothing.
StoreWithoutEscape(i) ==
  LET from == Walk(i.value, "Recall_Mode") IN
  CASE kind[i.value] = "data" -> Nothing
    [] from.ok \/ from.TyList # <<>> ->
         [Nothing EXCEPT !.confined = propagateType(i.at, ToSet(from.TyList))]
    [] kind[i.value] = "function" -> FunctionStored(i)
    [] OTHER -> [Nothing EXCEPT !.escaped = TyList(i.at, "Recall_Mode")]

\* from is the walk of what i stores.
StoreEffect(i, from) ==
  LET known == from.ok \/ from.TyList # <<>> IN
  CASE kind[i.value] = "data" -> Nothing
    [] kind[i.value] # "data" /\ known ->
         [Nothing EXCEPT !.confined = propagateType(i.at, ToSet(from.TyList)),
                         !.escaped = IF from.ok THEN {} ELSE TyList(i.at, "Recall_Mode")]
    [] kind[i.value] # "data" /\ ~known /\ getBaseType(i.value) -> Nothing
    [] kind[i.value] = "function" /\ ~known /\ ~getBaseType(i.value) -> FunctionStored(i)
    [] OTHER -> [Nothing EXCEPT !.escaped = TyList(i.at, "Recall_Mode")]
typeConfineInStore_new(i) == StoreEffect(i, Walk(i.value, "Recall_Mode"))

Effect(i) == IF i.what = "store" THEN typeConfineInStore_new(i) ELSE typeConfineInInitializer(i)

\* The pass driver initializes every module before it analyses the first, in the order
\* the threads that load them have put them in.
MapsInit ==
  /\ code \in Programs
  /\ fresh = Module /\ unresolved = Module
  /\ typeFuncsMap = [l \in Cell |-> {}]
  /\ typeConfineMap = [l \in Layer |-> {}] /\ typeEscapeSet = {}
  /\ sigFuncsMap = [s \in Sigs |-> {}] /\ Global_EmptyTy_Funcs = [s \in Sigs |-> {}]
  /\ typeResult = [c \in ICall |-> "none"]
  /\ ICallees = [c \in ICall |-> {}]

OfSig(F, s) == {f \in F : sig[f] = s}

\* What the items and the functions of a module add.
Gathered(effects, taken) ==
  LET stored == UNION {e.funcs : e \in effects}
      confined == UNION {e.confined : e \in effects}
      empty == UNION {e.empty : e \in effects} IN
  /\ typeFuncsMap' = [l \in Cell |-> typeFuncsMap[l] \cup {e[2] : e \in {d \in stored : d[1] = l}}]
  /\ typeConfineMap' = [l \in Layer |-> typeConfineMap[l] \cup {e[2] : e \in {d \in confined : d[1] = l}}]
  /\ typeEscapeSet' = typeEscapeSet \cup UNION {e.escaped : e \in effects}
  /\ Global_EmptyTy_Funcs' = [s \in Sigs |-> Global_EmptyTy_Funcs[s] \cup OfSig(empty, s)]
  /\ sigFuncsMap' = [s \in Sigs |-> sigFuncsMap[s] \cup OfSig(taken, s)]

doInitialization(m) ==
  /\ m \in fresh
  /\ Gathered({Effect(i) : i \in {j \in code : j.in = m}}, UNION {defs[f] : f \in {g \in Function : in[g] = m}})
  /\ fresh' = fresh \ {m}
  /\ UNCHANGED <<code, unresolved, typeResult, ICallees>>

-----------------------------------------------------------------------------
(* The targets of a call. *)

Within(confine) ==
  LET within[n \in Nat] ==
        [l \in Layer |-> IF n = 0 THEN {l} ELSE UNION {{k} \cup confine[k] : k \in within[n - 1][l]}]
  IN within
ConfinedIn(l, steps) == Within(typeConfineMap)[steps][l]
Confined(l) == ConfinedIn(l, Cardinality(Layer))

isEscape(l) == Confined(l) \cap typeEscapeSet # {}
merge_set(l) == UNION {typeFuncsMap[k] : k \in Confined(l)}
FST(c, FS1, l) ==
  IF isEscape(l) THEN {} ELSE (FS1 \cap merge_set(l)) \cup Global_EmptyTy_Funcs[sig[c]]

\* The loop over TyList.  A layer without targets clears FS1 for those after it.
Step(c, acc, l) ==
  LET found == FST(c, acc.FS1, l) IN
  IF found # {} THEN [acc EXCEPT !.results = @ \cup {"TwoLayer"}, !.FS2 = @ \cup found]
  ELSE IF isEscape(l) THEN [acc EXCEPT !.results = @ \cup {"TypeEscape"}]
  ELSE [acc EXCEPT !.results = @ \cup {"NoTwoLayerInfo"}, !.FS1 = {}]

findCalleesWithMLTA(c) ==
  LET getOneLayerResult == sigFuncsMap[sig[c]]
      layers == Walk(called[c], "Precise_Mode")
      all == FoldLeft(LAMBDA acc, l : Step(c, acc, l),
                      [FS1 |-> getOneLayerResult, FS2 |-> {}, results |-> {}], layers.TyList)
  IN CASE getOneLayerResult = {} -> <<"MissingBaseType", {}>>
       [] getOneLayerResult # {} /\ ~layers.ok -> <<"OneLayer", getOneLayerResult>>
       [] getOneLayerResult # {} /\ layers.ok ->
            IF Cardinality(all.results) = 1
            THEN <<CHOOSE r \in all.results : TRUE, IF all.results = {"TwoLayer"} THEN all.FS2 ELSE all.FS1>>
            ELSE IF "TypeEscape" \in all.results THEN <<"TypeEscape", all.FS1>>
            ELSE <<"MixedLayer", all.FS2>>

\* Not what the driver does: a module is analysed when it is initialized itself.
OwnInitialized(m) == m \notin fresh
AllInitialized(m) == fresh = {}

doModulePass(m) ==
  /\ m \in unresolved /\ AllInitialized(m)
  /\ LET resolved == {c \in ICall : in[c] = m} IN
     /\ typeResult' = [c \in ICall |-> IF c \in resolved THEN findCalleesWithMLTA(c)[1] ELSE typeResult[c]]
     /\ ICallees' = [c \in ICall |-> IF c \in resolved THEN findCalleesWithMLTA(c)[2] ELSE ICallees[c]]
  /\ unresolved' = unresolved \ {m}
  /\ UNCHANGED <<code, fresh, maps>>

-----------------------------------------------------------------------------
(* What may be called: functions and addresses flow through values and     *)
(* memory, where a struct's field is one cell for all objects.             *)

\* P has the functions and cells each value may be.
MayCall(P, c) == {f \in P[called[c]] \cap Function : sig[f] = sig[c]}
Callable(P, c) == IF c \in ICall THEN MayCall(P, c) ELSE callees[c]
Returned(F) == UNION {returned[f] : f \in F \cap DOMAIN returned}
Passed(v, C) == {arguments[c][index[v]] : c \in {d \in C : index[v] <= Len(arguments[d])}}
InMemory(P, l, program) ==
  (UNION {P[i.value] : i \in {j \in program : j.what = "store" /\ l \in P[j.at]}})
    \cup UNION {defs[i.value] : i \in {j \in program : j.what # "store" /\ j.at = l}}

Flows(P, v, program) ==
  CASE kind[v] = "argument" -> UNION {P[u] : u \in Passed(v, {c \in Call : parent[v] \in Callable(P, c)})}
    [] kind[v] = "call" -> UNION {P[u] : u \in Returned(Callable(P, v))}
    [] kind[v] \in {"cast", "phi", "select"} -> UNION {P[u] : u \in ToSet(operands[v])}
    [] kind[v] = "load" -> UNION {InMemory(P, l, program) : l \in P[operands[v][1]] \cap Cell}
    [] OTHER -> {}
Itself == [v \in Value |-> IF kind[v] = "function" THEN defs[v]
                            ELSE IF kind[v] \in {"gep", "alloca", "global"} THEN {cell[v]} ELSE {}]

More(P, program) == [v \in Value |-> P[v] \cup Flows(P, v, program)]
Saturated(program) ==
  LET saturated[n \in Nat] ==
        [P \in [Value -> SUBSET (Function \cup Cell)] |->
           LET more == More(P, program) IN IF n = 0 \/ more = P THEN P ELSE saturated[n - 1][more]]
  IN saturated[Cardinality(Value) * Cardinality(Function \cup Cell)]
MayBe == Saturated(code)[Itself]

Resolved == unresolved = {}

\* The functions of one layer may be lost to another that has none.
Loses(c) ==
  LET layers == TyList(called[c], "Precise_Mode") IN
  Cardinality(layers) > 1 /\ \E l \in layers : ~isEscape(l) /\ FST(c, sigFuncsMap[sig[c]], l) = {}
\* No initializer is skipped.
NothingSkipped == \A i \in code : i.what \notin {"scalar", "mangled"}

\* What is stored, and where, is what the walks take it for: through the layers they name
\* or a variable that is accessed by its name, and what such accesses load.  A function
\* that is stored elsewhere is kept for all calls, and the address of something composite
\* is ignored; that of another variable is stored as itself, as the walk does not fail at
\* the second alloca of one size.
Own(v) == {k \in Cell : {u \in DOMAIN cell : cell[u] = k} = {v}}
StoredThrough(P, i) ==
  LET to == Walk(i.at, IF kind[i.value] = "function" THEN "Precise_Mode" ELSE "Recall_Mode") IN
  \/ kind[i.value] = "function" /\ ~to.ok
  \/ P[i.at] \cap Cell \subseteq ToSet(to.TyList) \cup (Own(i.at) \ {cell[u] : u \in composite})
Named(v) ==
  /\ kind[v] = "load" => operands[v][1] \in DOMAIN cell
  /\ \A u \in OneOf(v, code) \cap DOMAIN cell : cell[u] \in Layer \/ u \in composite
AccessedByName(P) ==
  /\ \A v \in Value : kind[v] = "alloca" => \A u \in ToSet(operands[v]) : kind[u] = "data"
  /\ \A i \in {j \in code : j.what = "store" /\ kind[j.value] # "data"} :
       /\ StoredThrough(P, i) /\ \A v \in Walk(i.value, "Recall_Mode").visited : Named(v)
       /\ getBaseType(i.value) => kind[i.value] \notin {"phi", "select"}

\* A function that may be called is a target, of all but the calls that lose functions, in
\* programs that access memory so.
Covered ==
  LET P == MayBe IN
  AccessedByName(P) => \A c \in ICall : Loses(c) \/ MayCall(P, c) \subseteq ICallees[c]
=============================================================================
