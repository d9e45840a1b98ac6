------------------------ MODULE RefinementLoopProofs ------------------------
(***************************************************************************)
(* Theorems about the co-analysis loop, for any set of indirect calls and  *)
(* functions and any threshold.                                            *)
(***************************************************************************)
EXTENDS RefinementLoop, FiniteSetTheorems, TLAPS

\* The targets a round starts from and those every earlier round removed do not
\* exceed the pairs of a call and a function.
BudgetOK ==
  /\ pc = "round" => loop_num * Threshold + icallTargets <= Pairs
  /\ pc \in Passes \cup {"escapeChecker", "test"} => loop_num * Threshold + pre_num_round <= Pairs

\* Between the passes the count is that of the result: the last pass counts.
CountOK == pc \in {"round", "test", "done"} => icallTargets = NumTargets(ICallees)

Inv == TypeOK /\ CountOK /\ BudgetOK /\ ResultFollowed

-----------------------------------------------------------------------------
USE RefinementAssumption

LEMMA NumTargetsBounded ==
  ASSUME NEW callees \in [ICall -> SUBSET Function]
  PROVE  NumTargets(callees) \in Nat /\ Pairs \in Nat /\ NumTargets(callees) <= Pairs
<1>1. IsFiniteSet(ICall \X Function)
  BY FS_Product
<1> DEFINE E == {e \in ICall \X Function : e[2] \in callees[e[1]]}
<1>2. IsFiniteSet(E) /\ Cardinality(E) <= Cardinality(ICall \X Function)
  BY <1>1, FS_Subset
<1> QED BY <1>1, <1>2, FS_CardinalityType DEF NumTargets, Pairs

LEMMA LayerTargetsType == ASSUME MapsOK, NEW c \in ICall, NEW i \in DOMAIN Layers[c]
                          PROVE  findCalleesWithTwoLayerTA(c, i) \in SUBSET Function
BY DEF MapsOK, findCalleesWithTwoLayerTA, FS1

LEMMA MLTAType == ASSUME MapsOK, NEW c \in ICall
                  PROVE  /\ findCalleesWithMLTA(c)[1] \in TypeAnalyzeResult
                         /\ findCalleesWithMLTA(c)[2] \in SUBSET Function
<1>1. UNION {findCalleesWithTwoLayerTA(c, i) : i \in DOMAIN Layers[c]} \in SUBSET Function
  BY LayerTargetsType
<1>2. FS1(c, Len(Layers[c]) + 1) \in SUBSET Function
  BY DEF MapsOK, FS1
<1>3. LayeredTargets(c)[1] \in TypeAnalyzeResult /\ LayeredTargets(c)[2] \in SUBSET Function
  BY <1>1, <1>2 DEF LayeredTargets, TypeAnalyzeResult
<1> QED BY <1>3, TypesAssumption DEF MapsOK, findCalleesWithMLTA, TypeAnalyzeResult

LEMMA InitInv == Init => Inv
<1> SUFFICES ASSUME Init PROVE Inv
  OBVIOUS
<1>1. MapsOK /\ typeEscapeSet \subseteq Type
  BY TypesAssumption DEF Init, Maps, MapsOK
<1>2. typeResult \in [ICall -> TypeAnalyzeResult] /\ ICallees \in [ICall -> SUBSET Function]
  BY <1>1, MLTAType DEF Init
<1>3. NumTargets(ICallees) \in Nat /\ Pairs \in Nat /\ NumTargets(ICallees) <= Pairs
  BY <1>2, NumTargetsBounded
<1>4. TypeOK
  BY <1>1, <1>2, <1>3 DEF Init, TypeOK
<1>5. CountOK /\ BudgetOK /\ ResultFollowed
  BY <1>2, <1>3 DEF Init, CountOK, BudgetOK, ResultFollowed, Passes
<1> QED BY <1>4, <1>5 DEF Inv

(* A visit changes the sets of one call, and nothing the counts depend on. *)
LEMMA VisitInv ==
  ASSUME Inv, NEW c \in ICall, NEW pass \in Passes, Visit(pass, c),
         ICallees' \in [ICall -> SUBSET Function], Callees' \in [ICall -> SUBSET Function],
         typeResult' \in [ICall -> TypeAnalyzeResult], aliasResult' \in [ICall -> BOOLEAN],
         ResultFollowed'
  PROVE  Inv'
BY DEF Visit, maps, MapsOK, Inv, TypeOK, CountOK, BudgetOK, Passes

LEMMA FuncAliasInv == ASSUME Inv, NEW c \in ICall, FuncAliasAnalysis(c) PROVE Inv'
BY VisitInv DEF FuncAliasAnalysis, Inv, TypeOK, ResultFollowed, Passes

LEMMA ICallAliasInv == ASSUME Inv, NEW c \in ICall, ICallAliasAnalysis(c) PROVE Inv'
<1>1. CASE UNCHANGED ICallees
  BY <1>1, VisitInv DEF ICallAliasAnalysis, Inv, TypeOK, ResultFollowed, Passes
<1>2. CASE \E aliased \in SUBSET Function : ICallees' = [ICallees EXCEPT ![c] = aliased \cap @]
  BY <1>2, VisitInv DEF ICallAliasAnalysis, Inv, TypeOK, ResultFollowed, Passes
<1> QED BY <1>1, <1>2 DEF ICallAliasAnalysis

LEMMA ResolveOK == ASSUME TypeOK, ResultFollowed, NEW c \in ICall, NEW FS \in SUBSET Function, Resolve(c, FS)
                   PROVE  /\ ICallees' \in [ICall -> SUBSET Function]
                          /\ Callees' \in [ICall -> SUBSET Function]
                          /\ ResultFollowed'
BY DEF Resolve, TypeOK, ResultFollowed

LEMMA oneLayerInv == ASSUME Inv, NEW c \in ICall, oneLayerHandler(c) PROVE Inv'
<1> USE DEF Inv
<1>0. Visit("oneLayerHandler", c) /\ "oneLayerHandler" \in Passes /\ UNCHANGED aliasResult
  BY DEF oneLayerHandler, Passes
<1>1. CASE Skip(c)
  BY <1>0, <1>1, VisitInv DEF Skip, TypeOK, ResultFollowed
<1>2. CASE typeResult' = [typeResult EXCEPT ![c] = "TypeEscape"] /\ UNCHANGED <<ICallees, Callees>>
  BY <1>0, <1>2, VisitInv DEF TypeOK, ResultFollowed, TypeAnalyzeResult
<1>3. ASSUME NEW found \in {"OneLayer", "TwoLayer", "MixedLayer", "NoTwoLayerInfo"}, NEW FS \in SUBSET Function,
             typeResult' = [typeResult EXCEPT ![c] = found], Resolve(c, FS)
      PROVE  Inv'
  BY <1>0, <1>3, ResolveOK, VisitInv DEF TypeOK, TypeAnalyzeResult
<1> QED BY <1>1, <1>2, <1>3 DEF oneLayerHandler

LEMMA escapeInv == ASSUME Inv, NEW c \in ICall, escapeHandler(c) PROVE Inv'
<1> USE DEF Inv
<1>0. Visit("escapeHandler", c) /\ "escapeHandler" \in Passes /\ UNCHANGED aliasResult
  BY DEF escapeHandler, Passes
<1>1. CASE Skip(c)
  BY <1>0, <1>1, VisitInv DEF Skip, TypeOK, ResultFollowed
<1>2. CASE /\ typeResult' = [typeResult EXCEPT ![c] = findCalleesWithMLTA(c)[1]]
           /\ Resolve(c, findCalleesWithMLTA(c)[2])
  BY <1>0, <1>2, MLTAType, ResolveOK, VisitInv DEF TypeOK
<1> QED BY <1>1, <1>2 DEF escapeHandler

LEMMA ExplainEscapesMaps == ASSUME MapsOK, typeEscapeSet \subseteq Type, ExplainEscapes PROVE MapsOK'
<1>1. PICK found \in [typeEscapeSet -> SUBSET Function], confined \in [typeEscapeSet -> SUBSET Type],
           untrusted \in SUBSET typeEscapeSet : Grown(found, confined, untrusted)
  BY DEF ExplainEscapes
<1>2. \A types \in SUBSET typeEscapeSet : UNION {found[t] : t \in types} \in SUBSET Function
  OBVIOUS
<1>3. \A l \in Layer : UNION {confined[t] : t \in LayerTypes[l] \cap typeEscapeSet} \in SUBSET Type
  OBVIOUS
<1>4. typeFuncsMap' \in [Type -> SUBSET Function]
  BY <1>1, <1>2 DEF Grown, MapsOK
<1>5. LayerTypes' \in [Layer -> SUBSET Type]
  BY <1>1, <1>3 DEF Grown, MapsOK
<1>6. OneLayerTargets' \in [ICall -> SUBSET Function] /\ EmptyTyFuncs' \in [ICall -> SUBSET Function]
  BY <1>1, <1>2 DEF Grown, MapsOK
<1> QED BY <1>4, <1>5, <1>6 DEF MapsOK

LEMMA ExplainEscapesInv == ASSUME Inv, ExplainEscapes PROVE Inv'
<1>1. MapsOK'
  BY ExplainEscapesMaps DEF Inv, TypeOK
<1> QED BY <1>1 DEF ExplainEscapes, sets, Inv, TypeOK, CountOK, BudgetOK, ResultFollowed, Passes

LEMMA StartRoundInv == ASSUME Inv, StartRound PROVE Inv'
BY DEF StartRound, sets, maps, MapsOK, Inv, TypeOK, CountOK, BudgetOK, ResultFollowed, Passes

LEMMA EndPassInv ==
  ASSUME Inv, NEW pass \in Passes, Ends(pass), Recount, todo' \in {todo, ICall},
         pc' \in {"ICallAliasAnalysis", "oneLayerHandler", "escapeChecker", "test"}
  PROVE  Inv'
<1>1. NumTargets(ICallees) \in Nat
  BY NumTargetsBounded DEF Inv, TypeOK
<1> QED BY <1>1 DEF Ends, Recount, sets, maps, MapsOK, Inv, TypeOK, CountOK, BudgetOK, ResultFollowed,
                    NumTargets, Passes

LEMMA EndsInv == ASSUME Inv, EndFuncAlias \/ EndICallAlias \/ EndOneLayer \/ EndEscape PROVE Inv'
BY EndPassInv DEF EndFuncAlias, EndICallAlias, EndOneLayer, EndEscape, Passes

LEMMA TestInv == ASSUME Inv, Test PROVE Inv'
<1>1. (loop_num + 1) * Threshold = loop_num * Threshold + Threshold /\ loop_num * Threshold \in Nat
  BY DEF Inv, TypeOK
<1>2. loop_num * Threshold + pre_num_round <= Pairs /\ Pairs \in Nat
  BY NumTargetsBounded DEF Test, Inv, TypeOK, BudgetOK
<1>3. EnoughReduction => loop_num' * Threshold + icallTargets' <= Pairs
  <2> DEFINE Spent == loop_num * Threshold
  <2>1. loop_num' * Threshold = Spent + Threshold /\ icallTargets' = icallTargets
    BY <1>1 DEF Test
  <2>2. Spent \in Nat /\ Spent + pre_num_round <= Pairs
    BY <1>1, <1>2
  <2> HIDE DEF Spent
  <2> QED BY <1>2, <2>1, <2>2 DEF EnoughReduction, Inv, TypeOK
<1>4. pc' = "round" => EnoughReduction
  BY DEF Test
<1>5. pc' \in {"round", "done"} /\ Pairs' = Pairs
  BY DEF Test, Pairs
<1>6. BudgetOK'
  BY <1>3, <1>4, <1>5 DEF BudgetOK, Passes
<1> QED BY <1>6 DEF Test, sets, maps, MapsOK, Inv, TypeOK, CountOK, ResultFollowed, NumTargets

LEMMA NextInv == ASSUME Inv, [Next]_vars PROVE Inv'
<1>1. CASE UNCHANGED vars
  BY <1>1 DEF vars, sets, maps, MapsOK, Inv, TypeOK, CountOK, BudgetOK, ResultFollowed, NumTargets
<1>2. CASE Next
  BY <1>2, StartRoundInv, ExplainEscapesInv, EndsInv, TestInv, FuncAliasInv, ICallAliasInv, oneLayerInv, escapeInv DEF Next
<1> QED BY <1>1, <1>2

LEMMA Invariance == Spec => []Inv
BY InitInv, NextInv, PTL DEF Spec

(* The variables of the loop keep their types. *)
THEOREM TypeCorrect == Spec => []TypeOK
<1>1. Inv => TypeOK
  BY DEF Inv
<1> QED BY <1>1, Invariance, PTL

(* Whatever the passes find and add, the targets of the result and those that  *)
(* the rounds followed by another have used up do not exceed the pairs of a    *)
(* call and a function: at most Pairs / Threshold rounds are followed by one.  *)
THEOREM RoundsAlwaysBounded == Spec => []RoundsBounded
<1>1. Inv => RoundsBounded
  BY DEF Inv, CountOK, BudgetOK, RoundsBounded
<1> QED BY <1>1, Invariance, PTL

(* The reported targets of a call are always among those the data-flow         *)
(* analyses follow it by: the narrowing passes write ICallees only, the type   *)
(* passes ICallees and Callees.                                                *)
THEOREM ResultAlwaysFollowed == Spec => []ResultFollowed
<1>1. Inv => ResultFollowed
  BY DEF Inv
<1> QED BY <1>1, Invariance, PTL
=============================================================================
