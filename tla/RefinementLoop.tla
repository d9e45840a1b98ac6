--------------------------- MODULE RefinementLoop ---------------------------
(***************************************************************************)
(* The co-analysis loop of main: rounds of four passes over the indirect   *)
(* calls, two of data flow and two of types, until a round removes too few *)
(* targets.                                                                *)
(*                                                                         *)
(* The passes visit the calls in an order of their own (threads, or the    *)
(* order of pointers in a map).  What the analysis of one call finds is    *)
(* left open within what the pass can produce: FuncAlias and AliasGraph    *)
(* model how the data-flow passes find it.                                 *)
(***************************************************************************)
EXTENDS Naturals, Sequences, FiniteSets

CONSTANTS
  ICall, Function,
  OfType,           \* the functions of a call's type
  VirtualTargets,   \* getTargetsInDerivedClass: the overriders, {} if not virtual
  Layer, Type,      \* a field of a struct type a function is loaded from; struct types
  Layered, Layers,  \* the calls nextLayerBaseType_new succeeds for, and its TyList
  Known,            \* what CallGraphPass filled the maps of the types with
  Threshold         \* the reduction a round must reach to be followed by another

ASSUME RefinementAssumption ==
  IsFiniteSet(ICall) /\ IsFiniteSet(Function) /\ Threshold \in Nat \ {0}

Maps == [LayerTypes : [Layer -> SUBSET Type], typeFuncsMap : [Type -> SUBSET Function],
         OneLayerTargets : [ICall -> SUBSET Function], EmptyTyFuncs : [ICall -> SUBSET Function], typeEscapeSet : SUBSET Type]

ASSUME TypesAssumption ==
  /\ OfType \in [ICall -> SUBSET Function]
  /\ VirtualTargets \in [ICall -> SUBSET Function]
  /\ Layered \subseteq ICall
  /\ Layers \in [ICall -> Seq(Layer)]
  /\ Known \in Maps

VARIABLES
  pc, todo,            \* the pass that runs, the calls it has not visited
  ICallees,            \* the result
  Callees,             \* what the data-flow analyses follow calls by
  typeEscapeSet,       \* the types that escape
  LayerTypes,          \* a layer's type, those transited to and those confined to it
  typeFuncsMap,        \* the functions stored in a type
  OneLayerTargets,     \* getOneLayerResult: the known functions of a call's type
  EmptyTyFuncs,        \* Global_EmptyTy_Funcs: those of them stored in an unknown type
  typeResult,          \* Global_MLTA_Reualt_Map
  aliasResult,         \* Global_Alias_Results_Map: TRUE for 1
  icallTargets, pre_num_round, loop_num

sets == <<ICallees, Callees, typeResult, aliasResult>>
maps == <<LayerTypes, typeFuncsMap, OneLayerTargets, EmptyTyFuncs>>
vars == <<pc, todo, sets, typeEscapeSet, maps, icallTargets, pre_num_round, loop_num>>

TypeAnalyzeResult == {"TypeEscape", "OneLayer", "TwoLayer", "NoTwoLayerInfo",
                      "MissingBaseType", "MixedLayer", "VTable"}
Passes == {"FuncAliasAnalysis", "ICallAliasAnalysis", "oneLayerHandler", "escapeHandler"}

NumTargets(callees) == Cardinality({e \in ICall \X Function : e[2] \in callees[e[1]]})

MapsOK ==
  /\ LayerTypes \in [Layer -> SUBSET Type] /\ typeFuncsMap \in [Type -> SUBSET Function]
  /\ OneLayerTargets \in [ICall -> SUBSET Function] /\ EmptyTyFuncs \in [ICall -> SUBSET Function]

TypeOK ==
  /\ pc \in Passes \cup {"round", "escapeChecker", "test", "done"}
  /\ todo \subseteq ICall
  /\ ICallees \in [ICall -> SUBSET Function]
  /\ Callees \in [ICall -> SUBSET Function]
  /\ typeEscapeSet \subseteq Type
  /\ MapsOK
  /\ typeResult \in [ICall -> TypeAnalyzeResult]
  /\ aliasResult \in [ICall -> BOOLEAN]
  /\ icallTargets \in Nat /\ pre_num_round \in Nat /\ loop_num \in Nat

-----------------------------------------------------------------------------
(* Multi-layer type analysis of call c. *)

Escapes(l) == LayerTypes[l] \cap typeEscapeSet # {}
LayerFuncs(l) == UNION {typeFuncsMap[t] : t \in LayerTypes[l]}

\* A layer without targets clears FS1, the set the later layers start from.
Clears(c, l) == /\ ~Escapes(l)
                /\ (OneLayerTargets[c] \cap LayerFuncs(l)) \cup EmptyTyFuncs[c] = {}
FS1(c, i) == IF \E j \in 1..(i - 1) : Clears(c, Layers[c][j]) THEN {} ELSE OneLayerTargets[c]

findCalleesWithTwoLayerTA(c, i) ==
  LET l == Layers[c][i] IN
  IF Escapes(l) THEN {} ELSE (FS1(c, i) \cap LayerFuncs(l)) \cup EmptyTyFuncs[c]

TAResult(c, i) ==
  IF findCalleesWithTwoLayerTA(c, i) # {} THEN "TwoLayer"
  ELSE IF Escapes(Layers[c][i]) THEN "TypeEscape" ELSE "NoTwoLayerInfo"
TAResultSet(c) == {TAResult(c, i) : i \in DOMAIN Layers[c]}

\* The result of layered call c, and its targets: an escape leaves those of FS1.
LayeredTargets(c) ==
  LET FST == UNION {findCalleesWithTwoLayerTA(c, i) : i \in DOMAIN Layers[c]}
      Rest == FS1(c, Len(Layers[c]) + 1)
  IN CASE TAResultSet(c) = {"TwoLayer"}       -> <<"TwoLayer", FST>>
       [] TAResultSet(c) = {"NoTwoLayerInfo"} -> <<"NoTwoLayerInfo", Rest>>
       [] "TypeEscape" \in TAResultSet(c)     -> <<"TypeEscape", Rest>>
       [] OTHER                               -> <<"MixedLayer", FST>>

findCalleesWithMLTA(c) ==
  IF OneLayerTargets[c] # {} /\ c \in Layered THEN LayeredTargets(c)
  ELSE IF VirtualTargets[c] # {} THEN <<"VTable", VirtualTargets[c]>>
  ELSE <<IF OneLayerTargets[c] = {} THEN "MissingBaseType" ELSE "OneLayer", OneLayerTargets[c]>>

\* CallGraphPass resolved every call by its type.
Init ==
  /\ typeEscapeSet = Known.typeEscapeSet
  /\ LayerTypes = Known.LayerTypes /\ typeFuncsMap = Known.typeFuncsMap
  /\ OneLayerTargets = Known.OneLayerTargets /\ EmptyTyFuncs = Known.EmptyTyFuncs
  /\ typeResult = [c \in ICall |-> findCalleesWithMLTA(c)[1]]
  /\ ICallees = [c \in ICall |-> findCalleesWithMLTA(c)[2]]
  /\ Callees = ICallees
  /\ aliasResult = [c \in ICall |-> FALSE]
  /\ icallTargets = NumTargets(ICallees)
  /\ pre_num_round = icallTargets
  /\ loop_num = 0
  /\ pc = "round"
  /\ todo = {}

-----------------------------------------------------------------------------
StartRound ==
  /\ pc = "round"
  /\ pre_num_round' = icallTargets
  /\ pc' = "FuncAliasAnalysis"
  /\ todo' = ICall
  /\ UNCHANGED <<sets, typeEscapeSet, maps, icallTargets, loop_num>>

Visit(pass, c) ==
  /\ pc = pass
  /\ c \in todo
  /\ todo' = todo \ {c}
  /\ UNCHANGED <<pc, typeEscapeSet, maps, icallTargets, pre_num_round, loop_num>>

\* Functions whose forward analysis succeeded and does not reach c are removed.
FuncAliasAnalysis(c) ==
  /\ Visit("FuncAliasAnalysis", c)
  /\ \E kept \in SUBSET ICallees[c] : ICallees' = [ICallees EXCEPT ![c] = kept]
  /\ UNCHANGED <<Callees, typeResult, aliasResult>>

\* Backward from c: skipped, failed, or intersected with the targets c had.
ICallAliasAnalysis(c) ==
  /\ Visit("ICallAliasAnalysis", c)
  /\ \/ /\ aliasResult' = [aliasResult EXCEPT ![c] = FALSE]
        /\ UNCHANGED ICallees
     \/ /\ typeResult[c] \notin {"NoTwoLayerInfo", "MissingBaseType", "VTable"}
        /\ \E aliased \in SUBSET Function : ICallees' = [ICallees EXCEPT ![c] = aliased \cap @]
        /\ aliasResult' = [aliasResult EXCEPT ![c] = TRUE]
  /\ UNCHANGED <<Callees, typeResult>>

\* The type passes write both maps.
ResultOnly(c, FS) ==
  /\ ICallees' = [ICallees EXCEPT ![c] = FS]
  /\ UNCHANGED Callees
Resolve(c, FS) ==
  /\ ICallees' = [ICallees EXCEPT ![c] = FS]
  /\ Callees' = [Callees EXCEPT ![c] = FS]

Skip(c) == UNCHANGED <<ICallees, Callees, typeResult>>

\* oneLayerChecker traces a one-layer call to layers and functions: it gives
\* up, finds an escape and keeps the targets, or replaces them.
oneLayerHandler(c) ==
  /\ Visit("oneLayerHandler", c)
  /\ \/ Skip(c)
     \/ /\ ~aliasResult[c] /\ typeResult[c] = "OneLayer"
        /\ \/ /\ typeResult' = [typeResult EXCEPT ![c] = "TypeEscape"]
              /\ UNCHANGED <<ICallees, Callees>>
           \/ \E found \in {"OneLayer", "TwoLayer", "MixedLayer"}, FS \in SUBSET Function :
                /\ typeResult' = [typeResult EXCEPT ![c] = found]
                /\ Resolve(c, FS)
           \/ /\ typeResult' = [typeResult EXCEPT ![c] = "NoTwoLayerInfo"]
              /\ Resolve(c, {})
  /\ UNCHANGED aliasResult

\* What escapeChecker finds stored to escaped types: functions, and the types they are
\* loaded from.  Those of an untrusted type may be anywhere.
Grown(found, confined, untrusted) ==
  LET In(types) == UNION {found[t] : t \in types} IN
  /\ typeFuncsMap' = [t \in Type |-> typeFuncsMap[t] \cup In({t} \cap typeEscapeSet)]
  /\ LayerTypes' = [l \in Layer |-> LayerTypes[l] \cup UNION {confined[t] : t \in LayerTypes[l] \cap typeEscapeSet}]
  /\ OneLayerTargets' = [c \in ICall |-> OneLayerTargets[c] \cup (In(typeEscapeSet) \cap OfType[c])]
  /\ EmptyTyFuncs' = [c \in ICall |-> EmptyTyFuncs[c] \cup (In(untrusted) \cap OfType[c])]

\* The escapes it explains are forgotten, then the calls whose type escaped are resolved
\* by their type again.
ExplainEscapes ==
  /\ pc = "escapeChecker"
  /\ typeEscapeSet' \in SUBSET typeEscapeSet
  /\ \E found \in [typeEscapeSet -> SUBSET Function], confined \in [typeEscapeSet -> SUBSET Type],
        untrusted \in SUBSET typeEscapeSet : Grown(found, confined, untrusted)
  /\ pc' = "escapeHandler"
  /\ UNCHANGED <<todo, sets, icallTargets, pre_num_round, loop_num>>

escapeHandler(c) ==
  /\ Visit("escapeHandler", c)
  /\ \/ (aliasResult[c] \/ typeResult[c] # "TypeEscape") /\ Skip(c)
     \/ /\ ~aliasResult[c] /\ typeResult[c] = "TypeEscape"
        /\ typeResult' = [typeResult EXCEPT ![c] = findCalleesWithMLTA(c)[1]]
        /\ Resolve(c, findCalleesWithMLTA(c)[2])
  /\ UNCHANGED aliasResult

\* A pass that has visited every call counts the targets anew, each for itself.
Ends(pass) ==
  /\ pc = pass
  /\ todo = {}
  /\ UNCHANGED <<sets, typeEscapeSet, maps, pre_num_round, loop_num>>
Recount == icallTargets' = NumTargets(ICallees)

EndFuncAlias == Ends("FuncAliasAnalysis") /\ Recount /\ pc' = "ICallAliasAnalysis" /\ todo' = ICall
EndICallAlias == Ends("ICallAliasAnalysis") /\ Recount /\ pc' = "oneLayerHandler" /\ todo' = ICall
EndOneLayer == Ends("oneLayerHandler") /\ Recount /\ pc' = "escapeChecker" /\ todo' = ICall
TypesAgain == Ends("escapeHandler") /\ Recount /\ pc' = "oneLayerHandler" /\ todo' = ICall
EscapesNotCounted == Ends("escapeHandler") /\ pc' = "test" /\ UNCHANGED <<icallTargets, todo>>
EndEscape == Ends("escapeHandler") /\ Recount /\ pc' = "test" /\ UNCHANGED todo

\* (pre_num_round - cur_num_round) < 10000, on signed integers
AnyReduction == icallTargets <= pre_num_round
EnoughReduction == icallTargets + Threshold <= pre_num_round
Test ==
  /\ pc = "test"
  /\ loop_num' = loop_num + 1
  /\ pc' = IF EnoughReduction THEN "round" ELSE "done"
  /\ UNCHANGED <<todo, sets, typeEscapeSet, maps, icallTargets, pre_num_round>>

Next == \/ StartRound \/ ExplainEscapes \/ Test
        \/ EndFuncAlias \/ EndICallAlias \/ EndOneLayer \/ EndEscape
        \/ \E c \in ICall : \/ FuncAliasAnalysis(c) \/ ICallAliasAnalysis(c)
                            \/ oneLayerHandler(c) \/ escapeHandler(c)

Spec == Init /\ [][Next]_vars
\* main is a sequential program, and every pass a finite loop.
FairSpec == Spec /\ WF_vars(Next)

-----------------------------------------------------------------------------
(* Properties. *)

\* The rounds that are followed by another use up the targets there are: with
\* what is left in the result, no more than the pairs of a call and a function,
\* although a round may add targets.  It is said of the result and not of the
\* count: a last pass that added targets and did not count would break it.
Pairs == Cardinality(ICall \X Function)
RoundsBounded == pc = "round" => loop_num * Threshold + NumTargets(ICallees) <= Pairs

\* A reported target is one the data-flow analyses also follow, although they
\* narrow one map and the type passes rewrite both.
ResultFollowed == \A c \in ICall : ICallees[c] \subseteq Callees[c]

\* The loop ends.
Terminates == <>(pc = "done")
=============================================================================
