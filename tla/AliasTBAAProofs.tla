-------------------------- MODULE AliasTBAAProofs ---------------------------
(***************************************************************************)
(* The TBAA refinement is a filter: in a program with pointer levels the   *)
(* context that blocks merges is, whatever it blocked, always inside the   *)
(* one that blocks none.                                                   *)
(***************************************************************************)
EXTENDS AliasGraphTBAA, TLAPS

Re == INSTANCE AliasGraphProofs WITH
  NodeMap <- tNodeMap, aliasclass <- tAliasclass, TBAATag <- tTBAATag,
  ToNodeMap <- tTo, FromNodeMap <- tFrom, symbolGet <- tSymbolGet,
  blockedMerges <- tBlocked, stack <- tStack

Pl == INSTANCE AliasGraphProofs WITH
  MayAlias <- Tag \X Tag,
  NodeMap <- pNodeMap, aliasclass <- pAliasclass, TBAATag <- pTBAATag,
  ToNodeMap <- pTo, FromNodeMap <- pFrom, symbolGet <- pSymbolGet,
  blockedMerges <- pBlocked, stack <- pStack

\* The assumptions of the two contexts.
LEMMA Assumptions ==
  /\ Function \subseteq Value /\ ConstantData \subseteq Value /\ NoNode \notin Value
  /\ NoTag \notin Tag /\ MayAlias \subseteq Tag \X Tag /\ Tag \X Tag \subseteq Tag \X Tag
  /\ Calls \subseteq Re!Call /\ Calls \subseteq Pl!Call
BY ContextAssumption DEF Refined!Call, Re!Call, Pl!Call

-----------------------------------------------------------------------------
(* The steps are steps of both contexts. *)

LEMMA PlainMerge == Plain!Merge <=> Pl!Merge
BY DEF Plain!Merge, Plain!MergeBlocked, Plain!MergeSelf, Plain!MergeValues, Plain!MergeTo,
       Plain!MergeToReturn, Plain!MergeFrom, Plain!MergeFromReturn, Plain!Running, Plain!top,
       Plain!Pop, Plain!GoOn, Plain!Recurse, Plain!Activation, Plain!graph, Plain!AddEdge,
       Plain!Erased, Plain!MovedEdge, Plain!TagIfUntagged, Plain!shouldMergeByTBAA,
       Plain!mayAliasByTBAA, Plain!ClassesMerged,
       Pl!Merge, Pl!MergeBlocked, Pl!MergeSelf, Pl!MergeValues, Pl!MergeTo,
       Pl!MergeToReturn, Pl!MergeFrom, Pl!MergeFromReturn, Pl!Running, Pl!top,
       Pl!Pop, Pl!GoOn, Pl!Recurse, Pl!Activation, Pl!graph, Pl!AddEdge,
       Pl!Erased, Pl!MovedEdge, Pl!TagIfUntagged, Pl!shouldMergeByTBAA,
       Pl!mayAliasByTBAA, Pl!ClassesMerged

LEMMA RefinedMerge == Refined!Merge <=> Re!Merge
BY DEF Refined!Merge, Refined!MergeBlocked, Refined!MergeSelf, Refined!MergeValues, Refined!MergeTo,
       Refined!MergeToReturn, Refined!MergeFrom, Refined!MergeFromReturn, Refined!Running, Refined!top,
       Refined!Pop, Refined!GoOn, Refined!Recurse, Refined!Activation, Refined!graph, Refined!AddEdge,
       Refined!Erased, Refined!MovedEdge, Refined!TagIfUntagged, Refined!shouldMergeByTBAA,
       Refined!mayAliasByTBAA, Refined!ClassesMerged,
       Re!Merge, Re!MergeBlocked, Re!MergeSelf, Re!MergeValues, Re!MergeTo,
       Re!MergeToReturn, Re!MergeFrom, Re!MergeFromReturn, Re!Running, Re!top,
       Re!Pop, Re!GoOn, Re!Recurse, Re!Activation, Re!graph, Re!AddEdge,
       Re!Erased, Re!MovedEdge, Re!TagIfUntagged, Re!shouldMergeByTBAA,
       Re!mayAliasByTBAA, Re!ClassesMerged

LEMMA PlainHandles == ASSUME NEW i \in Calls PROVE Plain!HandleInst(i) <=> Pl!HandleInst(i)
BY DEF Plain!HandleInst, Plain!HandleAlloc, Plain!HandleLoad, Plain!HandleStoreInst, Plain!HandleStore,
       Plain!HandleMove, Plain!HandleReturnInst, Plain!HandleCai, Plain!Handle, Plain!SSA, Plain!Defines,
       Plain!Move, Plain!StoreInto, Plain!PointTo, Plain!SkipStore, Plain!CreateNodes, Plain!NodeMapWith,
       Plain!ClassesWith, Plain!checkNodeConnectivity, Plain!mergeNode, Plain!AddEdge, Plain!Activation,
       Plain!FunctionTag, Plain!TagIfUntagged, Plain!mayAliasByTBAA, Plain!graph,
       Pl!HandleInst, Pl!HandleAlloc, Pl!HandleLoad, Pl!HandleStoreInst, Pl!HandleStore,
       Pl!HandleMove, Pl!HandleReturnInst, Pl!HandleCai, Pl!Handle, Pl!SSA, Pl!Defines,
       Pl!Move, Pl!StoreInto, Pl!PointTo, Pl!SkipStore, Pl!CreateNodes, Pl!NodeMapWith,
       Pl!ClassesWith, Pl!checkNodeConnectivity, Pl!mergeNode, Pl!AddEdge, Pl!Activation,
       Pl!FunctionTag, Pl!TagIfUntagged, Pl!mayAliasByTBAA, Pl!graph

LEMMA RefinedHandles == ASSUME NEW i \in Calls PROVE Refined!HandleInst(i) <=> Re!HandleInst(i)
BY DEF Refined!HandleInst, Refined!HandleAlloc, Refined!HandleLoad, Refined!HandleStoreInst,
       Refined!HandleStore, Refined!HandleMove, Refined!HandleReturnInst, Refined!HandleCai,
       Refined!Handle, Refined!SSA, Refined!Defines,
       Refined!Move, Refined!StoreInto, Refined!PointTo, Refined!SkipStore, Refined!CreateNodes,
       Refined!NodeMapWith, Refined!ClassesWith, Refined!checkNodeConnectivity, Refined!mergeNode,
       Refined!AddEdge, Refined!Activation,
       Refined!FunctionTag, Refined!TagIfUntagged, Refined!mayAliasByTBAA, Refined!graph,
       Re!HandleInst, Re!HandleAlloc, Re!HandleLoad, Re!HandleStoreInst, Re!HandleStore,
       Re!HandleMove, Re!HandleReturnInst, Re!HandleCai, Re!Handle, Re!SSA, Re!Defines,
       Re!Move, Re!StoreInto, Re!PointTo, Re!SkipStore, Re!CreateNodes, Re!NodeMapWith,
       Re!ClassesWith, Re!checkNodeConnectivity, Re!mergeNode, Re!AddEdge, Re!Activation,
       Re!FunctionTag, Re!TagIfUntagged, Re!mayAliasByTBAA, Re!graph

LEMMA PlainSpec == Spec => Pl!Spec
<1>1. Init => Pl!Init
  BY DEF Init, Plain!Init, Pl!Init
<1>2. [Next]_vars => [Pl!Next]_Pl!vars
  <2> SUFFICES ASSUME [Next]_vars PROVE [Pl!Next]_Pl!vars
    OBVIOUS
  <2>1. CASE \E i \in Calls : HandleInst(i)
    BY <2>1, PlainHandles DEF HandleInst, Pl!Next
  <2>2. CASE Plain!Merge
    BY <2>2, PlainMerge DEF Pl!Next
  <2>3. CASE Refined!Merge /\ UNCHANGED pvars
    <3>1. UNCHANGED done
      BY <2>3 DEF Refined!Merge, Refined!MergeBlocked, Refined!MergeSelf, Refined!MergeValues, Refined!MergeTo,
           Refined!MergeToReturn, Refined!MergeFrom, Refined!MergeFromReturn, Refined!Running
    <3> QED BY <2>3, <3>1 DEF pvars, Pl!vars, Pl!graph
  <2>4. CASE UNCHANGED vars
    BY <2>4 DEF vars, pvars, Pl!vars, Pl!graph
  <2> QED BY <2>1, <2>2, <2>3, <2>4 DEF Next
<1> QED BY <1>1, <1>2, PTL DEF Spec, Pl!Spec

LEMMA RefinedSpec == Spec => Re!Spec
<1>1. Init => Re!Init
  BY DEF Init, Refined!Init, Re!Init
<1>2. [Next]_vars => [Re!Next]_Re!vars
  <2> SUFFICES ASSUME [Next]_vars PROVE [Re!Next]_Re!vars
    OBVIOUS
  <2>1. CASE \E i \in Calls : HandleInst(i)
    BY <2>1, RefinedHandles DEF HandleInst, Re!Next
  <2>2. CASE Refined!Merge
    BY <2>2, RefinedMerge DEF Re!Next
  <2>3. CASE Plain!Merge /\ UNCHANGED tvars
    <3>1. UNCHANGED done
      BY <2>3 DEF Plain!Merge, Plain!MergeBlocked, Plain!MergeSelf, Plain!MergeValues, Plain!MergeTo,
           Plain!MergeToReturn, Plain!MergeFrom, Plain!MergeFromReturn, Plain!Running
    <3> QED BY <2>3, <3>1 DEF tvars, Re!vars, Re!graph
  <2>4. CASE UNCHANGED vars
    BY <2>4 DEF vars, tvars, Re!vars, Re!graph
  <2> QED BY <2>1, <2>2, <2>3, <2>4 DEF Next
<1> QED BY <1>1, <1>2, PTL DEF Spec, Re!Spec

\* What holds of each context.
PlainOK(lvl) == Pl!Inv /\ Pl!LevelInv(lvl) /\ Pl!AccessInv /\ Pl!MoveInv

LEMMA ContextsOK ==
  ASSUME NEW CONSTANT lvl, Plain!Levelled(lvl)
  PROVE  Spec => []Re!Inv /\ []PlainOK(lvl)
<1>1. Pl!Levelled(lvl)
  BY DEF Plain!Levelled, Pl!Levelled
<1>2. Re!Spec => []Re!Inv
  BY Assumptions, Re!Invariance, PTL DEF Re!Invariance
<1>3. Pl!Spec => []Pl!Inv
  BY Assumptions, Pl!Invariance, PTL DEF Pl!Invariance
<1>4. Pl!Spec => []Pl!LevelInv(lvl)
  BY <1>1, Assumptions, Pl!LevelInvariant, PTL DEF Pl!LevelInvariant
<1>5. Pl!Spec => []Pl!AccessInv
  BY <1>1, Assumptions, Pl!AccessInvariant, PTL DEF Pl!AccessInvariant
<1>6. Pl!Spec => []Pl!MoveInv
  BY <1>1, Assumptions, Pl!MoveInvariant, PTL DEF Pl!MoveInvariant
<1>7. Pl!Inv /\ Pl!LevelInv(lvl) /\ Pl!AccessInv /\ Pl!MoveInv => PlainOK(lvl)
  BY DEF PlainOK
<1> QED BY <1>2, <1>3, <1>4, <1>5, <1>6, <1>7, PlainSpec, RefinedSpec, PTL

\* With every pair of tags compatible, no merge is blocked.
LEMMA NeverBlocked == Pl!Inv => ~Pl!MergeBlocked
<1> SUFFICES ASSUME Pl!Inv, Pl!MergeBlocked
             PROVE  FALSE
  OBVIOUS
<1>1. pStack \in Seq(Pl!Frame) /\ pStack # <<>> /\ pTBAATag \in [Value -> Tag \cup {NoTag}]
  BY DEF Pl!Inv, Pl!TypeOK, Pl!MergeBlocked, Pl!Running
<1>2. Pl!top \in Pl!Frame
  BY <1>1 DEF Pl!top
<1>3. Pl!top.n1 \in Value /\ Pl!top.n2 \in Value
  BY <1>2 DEF Pl!Frame
<1>4. Pl!shouldMergeByTBAA(Pl!top.n1, Pl!top.n2)
  BY <1>1, <1>3 DEF Pl!shouldMergeByTBAA, Pl!mayAliasByTBAA
<1> QED BY <1>4 DEF Pl!MergeBlocked

LEMMA PlainUnblocked == Spec => [](pBlocked = 0)
<1>1. Init => pBlocked = 0
  BY DEF Init, Plain!Init
<1>2. Pl!Inv /\ pBlocked = 0 /\ [Next]_vars => (pBlocked = 0)'
  <2> SUFFICES ASSUME Pl!Inv, pBlocked = 0, [Next]_vars
               PROVE  UNCHANGED pBlocked
    OBVIOUS
  <2>1. ASSUME NEW i \in Calls, HandleInst(i) PROVE UNCHANGED pBlocked
    <3>1. Pl!HandleInst(i) /\ Pl!TypeOK
      BY <2>1, PlainHandles DEF HandleInst, Pl!Inv
    <3> QED BY <3>1, Assumptions, Pl!HandlerKinds DEF Pl!HandlerKinds
  <2>2. CASE Plain!Merge
    BY <2>2, PlainMerge, NeverBlocked DEF Pl!Merge, Pl!MergeSelf, Pl!MergeValues, Pl!MergeTo,
       Pl!MergeToReturn, Pl!MergeFrom, Pl!MergeFromReturn
  <2>3. CASE UNCHANGED pvars \/ UNCHANGED vars
    BY <2>3 DEF vars, pvars
  <2> QED BY <2>1, <2>2, <2>3 DEF Next
<1>3. Pl!Spec => []Pl!Inv
  BY Assumptions, Pl!Invariance, PTL DEF Pl!Invariance
<1> QED BY <1>1, <1>2, <1>3, PlainSpec, PTL DEF Spec

-----------------------------------------------------------------------------
(* What the calls make of the values is the same in both contexts. *)

LEMMA SameCalls ==
  ASSUME NEW i
  PROVE  /\ Re!Accesses(i) <=> Pl!Accesses(i)
         /\ Re!MoveCall(i) <=> Pl!MoveCall(i)
         /\ Re!Assigned(i) = Pl!Assigned(i) /\ Re!Source(i) = Pl!Source(i)
         /\ Re!Creates(i) = Pl!Creates(i)
BY DEF Re!Accesses, Pl!Accesses, Re!MoveCall, Pl!MoveCall, Re!Assigned, Pl!Assigned,
       Re!Source, Pl!Source, Re!Passed, Pl!Passed, Re!Creates, Pl!Creates

LEMMA SameNodes ==
  ASSUME NEW i, NEW old, NEW new, Pl!NodesAfter(i, old, new)
  PROVE  Re!NodesAfter(i, old, new)
BY SameCalls DEF Re!NodesAfter, Pl!NodesAfter

LEMMA SameEdges == ASSUME NEW calls, NEW P PROVE Re!EdgesMade(calls, P) = Pl!EdgesMade(calls, P)
BY SameCalls DEF Re!EdgesMade, Pl!EdgesMade

LEMMA SameAlike ==
  ASSUME NEW calls, NEW P, NEW c, NEW d
  PROVE  Re!Alike(c, d, calls, P) <=> Pl!Alike(c, d, calls, P)
BY SameCalls DEF Re!Alike, Pl!Alike

LEMMA SameJoins == ASSUME NEW E, NEW P, Pl!Joins(E, P) PROVE Re!Joins(E, P)
BY DEF Re!Joins, Pl!Joins

-----------------------------------------------------------------------------
(* The context that blocks merges inside the one that blocks none. *)

\* Its nodes and edges lie inside the other one's always.  The merge it was asked
\* for is of nodes that the calls make alike, and the other context, which merges
\* first, has made them one when it starts.
FilterInv ==
  /\ \A v \in Value : tNodeMap[v] # NoNode <=> pNodeMap[v] # NoNode
  /\ Re!NodesWithin(pNodeMap)
  /\ Re!EdgesWithin(Re!EdgesMade(done, pNodeMap))
  /\ \/ Re!Due(tStack, done, pNodeMap)
     \/ pStack = <<>> /\ Re!StackWithin(Re!EdgesMade(done, pNodeMap), pNodeMap)

LEMMA HandledFilter ==
  ASSUME NEW lvl, Re!Inv, Re!Inv', PlainOK(lvl), PlainOK(lvl)', FilterInv,
         NEW i \in Calls, HandleInst(i)
  PROVE  FilterInv'
<1>1. Re!HandleInst(i) /\ Pl!HandleInst(i)
  BY PlainHandles, RefinedHandles DEF HandleInst
<1>2. Re!TypeOK' /\ Pl!TypeOK /\ Pl!TypeOK'
  BY DEF PlainOK, Re!Inv, Pl!Inv
<1>3. PICK P \in [Value -> Value \cup {NoNode}] : P = pNodeMap
  BY <1>2 DEF Pl!TypeOK
<1>4. PICK Q \in [Value -> Value \cup {NoNode}] : Q = pNodeMap'
  BY <1>2 DEF Pl!TypeOK
<1>5. Re!NodesAfter(i, P, Q)
  <2>1. Pl!NodesAfter(i, pNodeMap, pNodeMap')
    BY <1>1, <1>2, Assumptions, Pl!HandledNodes DEF Pl!HandledNodes
  <2> QED BY <1>3, <1>4, <2>1, SameNodes
<1>6. \A j \in done : /\ Re!Accesses(j) => P[j.v1] # NoNode /\ P[j.v2] # NoNode
                      /\ Re!MoveCall(j) => P[Re!Assigned(j)] # NoNode /\ P[Re!Source(j)] # NoNode
  <2>1. ASSUME NEW j \in done, Pl!Accesses(j) PROVE P[j.v1] # NoNode /\ P[j.v2] # NoNode
    <3>1. j \in Calls /\ Pl!Access(j)
      BY <1>2, <2>1 DEF Pl!TypeOK, Pl!Access
    <3>2. pNodeMap[j.v1] \in Value /\ pNodeMap[j.v2] \in Value
      BY <3>1 DEF PlainOK, Pl!AccessInv, Pl!Known
    <3> QED BY <1>3, <3>2, Assumptions
  <2>2. ASSUME NEW j \in done, Pl!MoveCall(j)
        PROVE  P[Pl!Assigned(j)] # NoNode /\ P[Pl!Source(j)] # NoNode
    BY <1>3, <2>2 DEF PlainOK, Pl!MoveInv
  <2> QED BY <2>1, <2>2, SameCalls
<1>7. /\ \A v \in Value : tNodeMap[v] # NoNode <=> P[v] # NoNode
      /\ Re!NodesWithin(P) /\ Re!EdgesWithin(Re!EdgesMade(done, P))
  BY <1>3 DEF FilterInv
<1>8. /\ \A v \in Value : tNodeMap'[v] # NoNode <=> Q[v] # NoNode
      /\ \A v \in Value : tNodeMap'[v] # NoNode => Q[tNodeMap'[v]] = Q[v]
      /\ \A n \in Value : /\ tTo'[n] # NoNode => <<n, tTo'[n]>> \in Re!EdgesMade(done', Q)
                          /\ tFrom'[n] # NoNode => <<tFrom'[n], n>> \in Re!EdgesMade(done', Q)
      /\ Re!Due(tStack', done', Q)
  BY <1>1, <1>2, <1>5, <1>6, <1>7, Assumptions, Re!HandledWithin DEF Re!HandledWithin
<1> QED BY <1>4, <1>8 DEF FilterInv, Re!NodesWithin, Re!EdgesWithin

LEMMA PlainFilter ==
  ASSUME NEW lvl, Re!Inv, PlainOK(lvl), FilterInv, Plain!Merge, UNCHANGED tvars
  PROVE  FilterInv'
<1>1. Pl!Merge /\ Pl!Inv /\ done \in SUBSET Calls
  BY PlainMerge DEF PlainOK, Pl!Inv, Pl!TypeOK
<1>2. PICK P : P = pNodeMap
  OBVIOUS
<1>3. PICK Q : Q = pNodeMap'
  OBVIOUS
<1>4. /\ UNCHANGED done
      /\ \A v, w \in Value : P[v] = P[w] => Q[v] = Q[w]
      /\ \A v \in Value : P[v] # NoNode <=> Q[v] # NoNode
  BY <1>1, <1>2, <1>3, Assumptions, Pl!MergeNodes DEF Pl!MergeNodes
<1>5. pStack # <<>>
  BY <1>1 DEF Pl!Merge, Pl!MergeBlocked, Pl!MergeSelf, Pl!MergeValues, Pl!MergeTo,
              Pl!MergeToReturn, Pl!MergeFrom, Pl!MergeFromReturn, Pl!Running
<1>6. UNCHANGED <<tNodeMap, tTo, tFrom, tStack>>
  BY DEF tvars
<1>7. /\ \A v \in Value : tNodeMap[v] # NoNode <=> P[v] # NoNode
      /\ \A v \in Value : tNodeMap[v] # NoNode => P[tNodeMap[v]] = P[v]
      /\ \A n \in Value : /\ tTo[n] # NoNode => <<n, tTo[n]>> \in Re!EdgesMade(done, P)
                          /\ tFrom[n] # NoNode => <<tFrom[n], n>> \in Re!EdgesMade(done, P)
      /\ Re!Due(tStack, done, P)
  BY <1>2, <1>5 DEF FilterInv, Re!NodesWithin, Re!EdgesWithin
<1>8. /\ Re!EdgesMade(done, P) \subseteq Re!EdgesMade(done, Q)
      /\ Re!Due(tStack, done, P) => Re!Due(tStack, done, Q)
  BY <1>1, <1>4, Assumptions, Re!OtherMerges DEF Re!OtherMerges
<1>9. \A v \in Value : tNodeMap[v] # NoNode => tNodeMap[v] \in Value
  BY DEF Re!Inv, Re!TypeOK
<1>10. /\ \A v \in Value : tNodeMap[v] # NoNode <=> Q[v] # NoNode
       /\ \A v \in Value : tNodeMap[v] # NoNode => Q[tNodeMap[v]] = Q[v]
       /\ \A n \in Value : /\ tTo[n] # NoNode => <<n, tTo[n]>> \in Re!EdgesMade(done, Q)
                           /\ tFrom[n] # NoNode => <<tFrom[n], n>> \in Re!EdgesMade(done, Q)
       /\ Re!Due(tStack, done, Q)
  BY <1>4, <1>7, <1>8, <1>9
<1> QED BY <1>3, <1>4, <1>6, <1>10 DEF FilterInv, Re!NodesWithin, Re!EdgesWithin

LEMMA RefinedFilter ==
  ASSUME NEW lvl, Re!Inv, PlainOK(lvl), pBlocked = 0, FilterInv,
         pStack = <<>>, Refined!Merge, UNCHANGED pvars
  PROVE  FilterInv'
<1>1. Re!Merge
  BY RefinedMerge
<1>2. PICK P : P = pNodeMap
  OBVIOUS
<1>3. PICK E : E = Re!EdgesMade(done, P)
  OBVIOUS
<1>4. /\ Re!Joins(E, P)
      /\ \A c, d \in Value : Re!Alike(c, d, done, P) => P[c] = P[d]
  <2>1. /\ Pl!Joins(Pl!EdgesMade(done, pNodeMap), pNodeMap)
        /\ \A c, d \in Value : Pl!Alike(c, d, done, pNodeMap) => pNodeMap[c] = pNodeMap[d]
    BY Assumptions, Pl!QuietJoins DEF Pl!QuietJoins, PlainOK
  <2> QED BY <1>2, <1>3, <2>1, SameEdges, SameAlike, SameJoins
<1>5. Re!StackWithin(E, P)
  <2>1. CASE Re!Due(tStack, done, pNodeMap)
    BY <1>2, <1>4, <2>1, Assumptions, Re!DueWithin DEF Re!DueWithin
  <2> QED BY <1>2, <1>3, <2>1 DEF FilterInv
<1>6. Re!Within(E, P)
  BY <1>2, <1>3, <1>5 DEF FilterInv, Re!Within
<1>7. Re!Within(E, P)'
  BY <1>1, <1>4, <1>6, Assumptions, Re!MergeWithin DEF Re!MergeWithin
<1>8. /\ UNCHANGED done
      /\ \A v \in Value : tNodeMap[v] # NoNode <=> tNodeMap'[v] # NoNode
  BY <1>1, Assumptions, Re!MergeNodes DEF Re!MergeNodes
<1>9. pNodeMap' = P /\ pStack' = <<>> /\ E = Re!EdgesMade(done', P)
  BY <1>2, <1>3, <1>8 DEF pvars
<1> QED BY <1>2, <1>7, <1>8, <1>9 DEF FilterInv, Re!Within, Re!NodesWithin, Re!EdgesWithin, Re!StackWithin,
                                  Re!FrameWithin

\* In a program with pointer levels the nodes and edges of the refined context lie
\* inside those of the plain one at every step, and the merges it has still to do
\* are of nodes the plain one has made one, or will have when it is done with its own.
THEOREM FilterInvariant ==
  ASSUME NEW CONSTANT lvl, Plain!Levelled(lvl)
  PROVE  Spec => []FilterInv
<1>1. Init => FilterInv
  BY DEF Init, Refined!Init, Plain!Init, FilterInv, Re!NodesWithin, Re!EdgesWithin, Re!Due
<1>2. /\ Re!Inv /\ Re!Inv' /\ PlainOK(lvl) /\ PlainOK(lvl)' /\ pBlocked = 0
      /\ FilterInv /\ [Next]_vars
      => FilterInv'
  <2> SUFFICES ASSUME Re!Inv, Re!Inv', PlainOK(lvl), PlainOK(lvl)', pBlocked = 0,
                      FilterInv, [Next]_vars
               PROVE  FilterInv'
    OBVIOUS
  <2>1. CASE UNCHANGED vars
    <3>1. UNCHANGED <<done, tNodeMap, tTo, tFrom, tStack, pNodeMap, pStack>>
      BY <2>1 DEF vars, tvars, pvars
    <3> QED BY <3>1 DEF FilterInv, Re!NodesWithin, Re!EdgesWithin, Re!StackWithin
  <2> QED BY <2>1, HandledFilter, PlainFilter, RefinedFilter DEF Next
<1> QED BY <1>1, <1>2, ContextsOK, PlainUnblocked, PTL DEF Spec

\* In a program with pointer levels TBAA refinement only removes aliases: two values
\* that it finds to be aliases are aliases without it, whatever tags the accesses
\* carry and whichever of them are compatible (Config.h calls it a filter).
THEOREM RefinementAlwaysAddsNoAlias ==
  ASSUME NEW CONSTANT lvl, Plain!Levelled(lvl)
  PROVE  Spec => []RefinementAddsNoAlias
<1>1. Re!Inv /\ FilterInv => RefinementAddsNoAlias
  <2> SUFFICES ASSUME Re!Inv, FilterInv, NEW v \in Value, NEW w \in Value,
                      tNodeMap[v] # NoNode, tNodeMap[v] = tNodeMap[w]
               PROVE  pNodeMap[v] = pNodeMap[w]
    BY DEF RefinementAddsNoAlias
  <2>1. pNodeMap[tNodeMap[v]] = pNodeMap[v] /\ pNodeMap[tNodeMap[w]] = pNodeMap[w]
    BY DEF FilterInv, Re!NodesWithin
  <2> QED BY <2>1
<1> QED BY <1>1, ContextsOK, FilterInvariant, PTL
=============================================================================
