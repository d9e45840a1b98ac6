-------------------------- MODULE AliasGraphProofs --------------------------
(***************************************************************************)
(* Proofs about AliasGraph for every set of values, tags and calls.        *)
(***************************************************************************)
EXTENDS AliasGraph, SequenceTheorems, FiniteSetTheorems, TLAPS

-----------------------------------------------------------------------------
(* The fields of a call. *)

LEMMA CallFields ==
  ASSUME NEW i \in Calls
  PROVE  /\ i.op \in {"alloca", "load", "store", "init", "move", "ret", "copycall"} => i.v1 \in Value
         /\ i.op \in {"load", "store", "init", "move", "ret", "copycall"} => i.v2 \in Value
         /\ i.op \in {"load", "store"} => i.tag \in Tag \cup {NoTag}
         /\ i.op \in {"call", "copycall", "symbol_get"} => i.cai \in Value /\ i.args \in SUBSET Value
         /\ i.op = "symbol_get" => i.f \in Function
<1>1. i \in Call
  BY CallsAssumption
<1> QED BY <1>1 DEF Call

(* The stack operations keep the stack a sequence of frames. *)

LEMMA TopType ==
  ASSUME stack \in Seq(Frame), stack # <<>>
  PROVE  Len(stack) \in Nat \ {0} /\ Len(stack) \in DOMAIN stack /\ top \in Frame
BY DEF top

LEMMA ActivationType ==
  ASSUME NEW n1 \in Value, NEW n2 \in Value, NEW at \in Phase,
         NEW m1 \in Value \cup {NoNode}, NEW m2 \in Value \cup {NoNode}
  PROVE  Activation(n1, n2, at, m1, m2) \in Frame
BY DEF Activation, Frame

LEMMA PushType ==
  ASSUME stack \in Seq(Frame), NEW n1 \in Value, NEW n2 \in Value, mergeNode(n1, n2)
  PROVE  /\ stack' \in Seq(Frame)
         /\ Len(stack') = Len(stack) + 1
         /\ \A j \in 1..Len(stack) : stack'[j] = stack[j]
         /\ stack'[Len(stack) + 1] = Activation(n1, n2, "enter", NoNode, NoNode)
<1>1. Activation(n1, n2, "enter", NoNode, NoNode) \in Frame
  BY ActivationType DEF Phase
<1> QED BY <1>1, AppendProperties DEF mergeNode

LEMMA PopType ==
  ASSUME stack \in Seq(Frame), stack # <<>>, Pop
  PROVE  /\ stack' \in Seq(Frame)
         /\ Len(stack') = Len(stack) - 1
         /\ \A j \in 1..Len(stack') : stack'[j] = stack[j]
<1> DEFINE n == Len(stack) - 1
<1>1. n \in Nat /\ n < Len(stack)
  BY TopType
<1>2. Pop => stack' = SubSeq(stack, 1, n)
  BY DEF Pop
<1> HIDE DEF n
<1>3. SubSeq(stack, 1, n) \in Seq(Frame)
  BY <1>1
<1>4. Len(SubSeq(stack, 1, n)) = n
  BY <1>1
<1>5. \A j \in 1..n : SubSeq(stack, 1, n)[j] = stack[j]
  BY <1>1
<1> QED BY <1>2, <1>3, <1>4, <1>5 DEF n

LEMMA GoOnType ==
  ASSUME stack \in Seq(Frame), stack # <<>>, NEW at \in Phase, GoOn(at)
  PROVE  /\ stack' \in Seq(Frame)
         /\ Len(stack') = Len(stack)
         /\ \A j \in 1..Len(stack) : /\ stack'[j].n1 = stack[j].n1
                                     /\ stack'[j].n2 = stack[j].n2
                                     /\ stack'[j].m1 = stack[j].m1
                                     /\ stack'[j].m2 = stack[j].m2
<1>1. top \in Frame /\ Len(stack) \in DOMAIN stack
  BY TopType
<1>2. [top EXCEPT !.at = at] \in Frame
  BY <1>1 DEF Frame
<1>3. stack' = [stack EXCEPT ![Len(stack)] = [top EXCEPT !.at = at]]
  BY DEF GoOn, top
<1>4. stack' \in Seq(Frame) /\ Len(stack') = Len(stack)
  BY <1>1, <1>2, <1>3
<1>5. \A j \in 1..Len(stack) : stack'[j] = IF j = Len(stack) THEN [top EXCEPT !.at = at] ELSE stack[j]
  BY <1>3
<1>6. /\ [top EXCEPT !.at = at].n1 = top.n1
      /\ [top EXCEPT !.at = at].n2 = top.n2
      /\ [top EXCEPT !.at = at].m1 = top.m1
      /\ [top EXCEPT !.at = at].m2 = top.m2
  BY <1>1 DEF Frame
<1> QED BY <1>4, <1>5, <1>6 DEF top

LEMMA RecurseType ==
  ASSUME stack \in Seq(Frame), stack # <<>>, NEW at \in Phase,
         NEW m1 \in Value, NEW m2 \in Value, Recurse(at, m1, m2)
  PROVE  /\ stack' \in Seq(Frame)
         /\ Len(stack') = Len(stack) + 1
         /\ \A j \in 1..(Len(stack) - 1) : stack'[j] = stack[j]
         /\ stack'[Len(stack)] = Activation(top.n1, top.n2, at, m1, m2)
         /\ stack'[Len(stack) + 1] = Activation(m1, m2, "enter", NoNode, NoNode)
<1> DEFINE caller == Activation(top.n1, top.n2, at, m1, m2)
           callee == Activation(m1, m2, "enter", NoNode, NoNode)
           waiting == [stack EXCEPT ![Len(stack)] = caller]
<1>1. top \in Frame /\ Len(stack) \in DOMAIN stack /\ Len(stack) \in Nat \ {0}
  BY TopType
<1>2. caller \in Frame /\ callee \in Frame
  <2>1. top.n1 \in Value /\ top.n2 \in Value /\ "enter" \in Phase
    BY <1>1 DEF Frame, Phase
  <2> QED BY <2>1, ActivationType
<1>3. stack' = Append(waiting, callee)
  BY DEF Recurse
<1> HIDE DEF caller, callee
<1>4. waiting \in Seq(Frame) /\ Len(waiting) = Len(stack)
  BY <1>1, <1>2
<1>5. /\ \A j \in 1..(Len(stack) - 1) : waiting[j] = stack[j]
      /\ waiting[Len(stack)] = caller
  BY <1>1
<1> HIDE DEF waiting
<1>6. /\ stack' \in Seq(Frame) /\ Len(stack') = Len(stack) + 1
      /\ \A j \in 1..Len(stack) : stack'[j] = waiting[j]
      /\ stack'[Len(stack) + 1] = callee
  BY <1>2, <1>3, <1>4, AppendProperties
<1> QED BY <1>1, <1>5, <1>6 DEF caller, callee

-----------------------------------------------------------------------------
(* Type correctness. *)

LEMMA NodeMapWithType ==
  ASSUME TypeOK, NEW S \in SUBSET Value
  PROVE  /\ NodeMapWith(S) \in [Value -> Value \cup {NoNode}]
         /\ \A v \in S : NodeMapWith(S)[v] \in Value
         /\ ClassesWith(S) \in [Value -> SUBSET Value]
BY DEF TypeOK, NodeMapWith, ClassesWith

LEMMA TagType ==
  ASSUME NEW tags \in [Value -> Tag \cup {NoTag}], NEW n \in Value, NEW tag \in Tag \cup {NoTag}
  PROVE  /\ TagIfUntagged(tags, n, tag) \in [Value -> Tag \cup {NoTag}]
         /\ FunctionTag(tags, n, tag) \in [Value -> Tag \cup {NoTag}]
BY DEF TagIfUntagged, FunctionTag

LEMMA PointToType ==
  ASSUME TypeOK, NEW n1 \in Value, NEW n2 \in Value, PointTo(n1, n2)
  PROVE  /\ ToNodeMap' \in [Value -> Value \cup {NoNode}]
         /\ FromNodeMap' \in [Value -> Value \cup {NoNode}]
         /\ stack' \in Seq(Frame)
<1>1. CASE ToNodeMap[n2] # NoNode /\ mergeNode(n1, ToNodeMap[n2]) /\ UNCHANGED <<ToNodeMap, FromNodeMap>>
  <2>1. ToNodeMap[n2] \in Value
    BY <1>1 DEF TypeOK
  <2> QED BY <1>1, <2>1, PushType DEF TypeOK
<1>2. CASE FromNodeMap[n1] # NoNode /\ mergeNode(FromNodeMap[n1], n2) /\ UNCHANGED <<ToNodeMap, FromNodeMap>>
  <2>1. FromNodeMap[n1] \in Value
    BY <1>2 DEF TypeOK
  <2> QED BY <1>2, <2>1, PushType DEF TypeOK
<1>3. CASE AddEdge(n2, n1) /\ UNCHANGED stack
  BY <1>3 DEF TypeOK, AddEdge
<1> QED BY <1>1, <1>2, <1>3 DEF PointTo

LEMMA StoreIntoType ==
  ASSUME TypeOK, NEW v1 \in Value, NEW v2 \in Value, StoreInto(v1, v2),
         TBAATag' \in [Value -> Tag \cup {NoTag}], done' \subseteq Calls
  PROVE  TypeOK'
<1> DEFINE n1 == NodeMapWith({v1, v2})[v1]
           n2 == NodeMapWith({v1, v2})[v2]
<1>1. n1 \in Value /\ n2 \in Value
  BY NodeMapWithType
<1>2. NodeMap' \in [Value -> Value \cup {NoNode}] /\ aliasclass' \in [Value -> SUBSET Value]
  BY NodeMapWithType DEF StoreInto, CreateNodes
<1>3. \/ UNCHANGED <<ToNodeMap, FromNodeMap, stack>>
      \/ PointTo(n1, n2)
  BY DEF StoreInto
<1> HIDE DEF n1, n2
<1>4. /\ ToNodeMap' \in [Value -> Value \cup {NoNode}]
      /\ FromNodeMap' \in [Value -> Value \cup {NoNode}]
      /\ stack' \in Seq(Frame)
  BY <1>1, <1>3, PointToType DEF TypeOK
<1> QED BY <1>2, <1>4 DEF StoreInto, TypeOK

LEMMA MoveType ==
  ASSUME TypeOK, NEW v1 \in Value, NEW v2 \in Value, NEW S \in SUBSET Value, Move(v1, v2, S)
  PROVE  /\ NodeMap' \in [Value -> Value \cup {NoNode}]
         /\ aliasclass' \in [Value -> SUBSET Value]
         /\ stack' \in Seq(Frame)
<1> DEFINE nodes   == NodeMapWith(S \cup {v2})
           classes == ClassesWith(S \cup {v2})
           n1      == nodes[v1]
           n2      == nodes[v2]
<1>1. /\ nodes \in [Value -> Value \cup {NoNode}] /\ n2 \in Value
      /\ classes \in [Value -> SUBSET Value]
  BY NodeMapWithType
<1>2. CASE /\ n1 = NoNode
           /\ NodeMap' = [nodes EXCEPT ![v1] = n2]
           /\ aliasclass' = [classes EXCEPT ![n2] = @ \cup {v1}]
           /\ UNCHANGED stack
  <2> HIDE DEF nodes, classes, n1, n2
  <2> QED BY <1>1, <1>2 DEF TypeOK
<1>3. CASE CreateNodes(S \cup {v2}) /\ UNCHANGED stack
  BY <1>1, <1>3 DEF CreateNodes, TypeOK
<1>4. CASE n1 # NoNode /\ CreateNodes(S \cup {v2}) /\ mergeNode(n1, n2)
  <2>1. n1 \in Value
    BY <1>1, <1>4
  <2>2. stack' \in Seq(Frame)
    BY <1>1, <1>4, <2>1, PushType DEF TypeOK
  <2> QED BY <1>1, <1>4, <2>2 DEF CreateNodes
<1> QED BY <1>2, <1>3, <1>4 DEF Move

LEMMA HandleInstType ==
  ASSUME TypeOK, NEW i \in Calls, HandleInst(i)
  PROVE  TypeOK'
<1>1. done' \subseteq Calls
  BY DEF HandleInst, HandleAlloc, HandleLoad, HandleStoreInst, HandleStore, HandleMove,
         HandleReturnInst, HandleCai, Handle, TypeOK
<1>2. CASE HandleAlloc(i)
  <2>1. {i.v1} \in SUBSET Value
    BY <1>2, CallFields DEF HandleAlloc
  <2> QED BY <1>1, <1>2, <2>1, NodeMapWithType DEF HandleAlloc, CreateNodes, TypeOK
<1>3. CASE HandleLoad(i)
  <2> DEFINE n1 == NodeMapWith({i.v1, i.v2})[i.v1]
             n2 == NodeMapWith({i.v1, i.v2})[i.v2]
  <2>1. i.v1 \in Value /\ i.v2 \in Value /\ i.tag \in Tag \cup {NoTag}
    BY <1>3, CallFields DEF HandleLoad
  <2>2. n1 \in Value /\ n2 \in Value
    BY <2>1, NodeMapWithType
  <2>3. NodeMap' \in [Value -> Value \cup {NoNode}] /\ aliasclass' \in [Value -> SUBSET Value]
    BY <1>3, <2>1, NodeMapWithType DEF HandleLoad, CreateNodes
  <2>4. /\ TBAATag' = TagIfUntagged(TagIfUntagged(TBAATag, n2, i.tag), n1, i.tag)
        /\ PointTo(n1, n2)
        /\ UNCHANGED <<symbolGet, blockedMerges>>
    BY <1>3 DEF HandleLoad
  <2> HIDE DEF n1, n2
  <2>5. TBAATag' \in [Value -> Tag \cup {NoTag}]
    BY <2>1, <2>2, <2>4, TagType DEF TypeOK
  <2>6. /\ ToNodeMap' \in [Value -> Value \cup {NoNode}]
        /\ FromNodeMap' \in [Value -> Value \cup {NoNode}]
        /\ stack' \in Seq(Frame)
    BY <2>2, <2>4, PointToType
  <2> QED BY <1>1, <2>3, <2>4, <2>5, <2>6 DEF TypeOK
<1>4. CASE HandleStoreInst(i)
  <2> DEFINE n1 == NodeMapWith({i.v1, i.v2})[i.v1]
             n2 == NodeMapWith({i.v1, i.v2})[i.v2]
             memTagged == TagIfUntagged(TBAATag, n2, i.tag)
  <2>1. i.v1 \in Value /\ i.v2 \in Value /\ i.tag \in Tag \cup {NoTag}
    BY <1>4, CallFields DEF HandleStoreInst
  <2>2. n1 \in Value /\ n2 \in Value
    BY <2>1, NodeMapWithType
  <2>3. CASE SkipStore
    BY <1>1, <2>3 DEF SkipStore, graph, TypeOK
  <2>4. CASE /\ TBAATag' = IF i.v1 \in Function THEN FunctionTag(memTagged, n1, i.tag) ELSE memTagged
             /\ StoreInto(i.v1, i.v2)
    <3> HIDE DEF n1, n2
    <3>1. memTagged \in [Value -> Tag \cup {NoTag}]
      BY <2>1, <2>2, TagType DEF TypeOK
    <3>2. TBAATag' \in [Value -> Tag \cup {NoTag}]
      BY <2>1, <2>2, <2>4, <3>1, TagType
    <3> QED BY <1>1, <2>1, <2>4, <3>2, StoreIntoType
  <2> QED BY <1>4, <2>3, <2>4 DEF HandleStoreInst
<1>5. CASE HandleStore(i)
  <2>1. i.v1 \in Value /\ i.v2 \in Value
    BY <1>5, CallFields DEF HandleStore
  <2>2. CASE SkipStore
    BY <1>1, <2>2 DEF SkipStore, graph, TypeOK
  <2>3. CASE StoreInto(i.v1, i.v2) /\ UNCHANGED TBAATag
    <3>1. TBAATag' \in [Value -> Tag \cup {NoTag}]
      BY <2>3 DEF TypeOK
    <3> QED BY <1>1, <2>1, <2>3, <3>1, StoreIntoType
  <2> QED BY <1>5, <2>2, <2>3 DEF HandleStore
<1>6. CASE HandleMove(i)
  <2>1. i.v1 \in Value /\ i.v2 \in Value /\ Move(i.v1, i.v2, {}) /\ UNCHANGED symbolGet
    BY <1>6, CallFields DEF HandleMove
  <2>2. UNCHANGED <<TBAATag, ToNodeMap, FromNodeMap, blockedMerges>>
    BY <2>1 DEF Move
  <2> QED BY <1>1, <2>1, <2>2, MoveType DEF TypeOK
<1>7. CASE HandleReturnInst(i)
  <2>1. i.v1 \in Value /\ i.v2 \in Value
    BY <1>7, CallFields DEF HandleReturnInst
  <2>2. CASE SkipStore
    BY <1>1, <2>2 DEF SkipStore, graph, TypeOK
  <2>3. CASE Move(i.v1, i.v2, {}) /\ UNCHANGED symbolGet
    <3>1. UNCHANGED <<TBAATag, ToNodeMap, FromNodeMap, blockedMerges>>
      BY <2>3 DEF Move
    <3> QED BY <1>1, <2>1, <2>3, <3>1, MoveType DEF TypeOK
  <2> QED BY <1>7, <2>2, <2>3 DEF HandleReturnInst
<1>8. CASE HandleCai(i)
  <2>1. CASE /\ i.op = "call"
             /\ CreateNodes({i.cai} \cup i.args)
             /\ UNCHANGED <<TBAATag, ToNodeMap, FromNodeMap, symbolGet, blockedMerges, stack>>
    <3>1. {i.cai} \cup i.args \in SUBSET Value
      BY <2>1, CallFields
    <3> QED BY <1>1, <2>1, <3>1, NodeMapWithType DEF CreateNodes, TypeOK
  <2>2. CASE /\ i.op = "copycall"
             /\ Move(i.v1, i.v2, {i.cai} \cup i.args)
             /\ UNCHANGED symbolGet
    <3>1. {i.cai} \cup i.args \in SUBSET Value /\ i.v1 \in Value /\ i.v2 \in Value
      BY <2>2, CallFields
    <3>2. UNCHANGED <<TBAATag, ToNodeMap, FromNodeMap, blockedMerges>>
      BY <2>2 DEF Move
    <3> QED BY <1>1, <2>2, <3>1, <3>2, MoveType DEF TypeOK
  <2>3. CASE /\ i.op = "symbol_get"
             /\ Move(i.cai, i.f, {i.cai} \cup i.args)
             /\ symbolGet' = symbolGet \cup {i.f}
    <3>1. {i.cai} \cup i.args \in SUBSET Value /\ i.cai \in Value /\ i.f \in Function /\ i.f \in Value
      BY <2>3, CallFields, ValueAssumption
    <3>2. UNCHANGED <<TBAATag, ToNodeMap, FromNodeMap, blockedMerges>>
      BY <2>3 DEF Move
    <3> QED BY <1>1, <2>3, <3>1, <3>2, MoveType DEF TypeOK
  <2> QED BY <1>8, <2>1, <2>2, <2>3 DEF HandleCai
<1> QED BY <1>2, <1>3, <1>4, <1>5, <1>6, <1>7, <1>8 DEF HandleInst

LEMMA MergeType ==
  ASSUME TypeOK, Merge
  PROVE  TypeOK'
<1>1. stack \in Seq(Frame) /\ stack # <<>> /\ top \in Frame /\ UNCHANGED <<symbolGet, done>>
  <2>1. stack \in Seq(Frame) /\ stack # <<>> /\ UNCHANGED <<symbolGet, done>>
    BY DEF Merge, MergeBlocked, MergeSelf, MergeValues, MergeTo, MergeToReturn, MergeFrom,
           MergeFromReturn, Running, TypeOK
  <2> QED BY <2>1, TopType
<1>2. /\ top.n1 \in Value /\ top.n2 \in Value
      /\ top.m1 \in Value \cup {NoNode} /\ top.m2 \in Value \cup {NoNode}
  BY <1>1 DEF Frame
<1>3. Pop => stack' \in Seq(Frame)
  BY <1>1, PopType
<1>4. \A at \in Phase : GoOn(at) => stack' \in Seq(Frame)
  BY <1>1, GoOnType
<1>5. \A m1, m2 \in Value : \A at \in Phase : Recurse(at, m1, m2) => stack' \in Seq(Frame)
  BY <1>1, RecurseType
<1>6. CASE MergeBlocked
  BY <1>1, <1>3, <1>6 DEF MergeBlocked, graph, TypeOK
<1>7. CASE MergeSelf
  BY <1>1, <1>3, <1>7 DEF MergeSelf, graph, TypeOK
<1>8. CASE MergeValues
  <2>1. stack' \in Seq(Frame)
    BY <1>4, <1>8 DEF MergeValues, Phase
  <2>2. TBAATag' \in [Value -> Tag \cup {NoTag}]
    BY <1>2, <1>8, TagType DEF MergeValues, TypeOK
  <2>3. NodeMap' \in [Value -> Value \cup {NoNode}] /\ aliasclass' \in [Value -> SUBSET Value]
    BY <1>2, <1>8 DEF MergeValues, ClassesMerged, TypeOK
  <2> QED BY <1>1, <1>8, <2>1, <2>2, <2>3 DEF MergeValues, TypeOK
<1>9. CASE MergeTo
  <2>1. stack' \in Seq(Frame)
    BY <1>2, <1>4, <1>5, <1>9 DEF MergeTo, Phase, TypeOK
  <2>2. ToNodeMap' \in [Value -> Value \cup {NoNode}] /\ FromNodeMap' \in [Value -> Value \cup {NoNode}]
    BY <1>2, <1>9 DEF MergeTo, MovedEdge, Erased, TypeOK
  <2> QED BY <1>1, <1>9, <2>1, <2>2 DEF MergeTo, TypeOK
<1>10. CASE MergeToReturn
  <2>1. stack' \in Seq(Frame)
    BY <1>4, <1>10 DEF MergeToReturn, Phase
  <2>2. ToNodeMap' \in [Value -> Value \cup {NoNode}] /\ FromNodeMap' \in [Value -> Value \cup {NoNode}]
    BY <1>2, <1>10 DEF MergeToReturn, AddEdge, TypeOK
  <2> QED BY <1>1, <1>10, <2>1, <2>2 DEF MergeToReturn, TypeOK
<1>11. CASE MergeFrom
  <2>1. stack' \in Seq(Frame)
    BY <1>2, <1>3, <1>5, <1>11 DEF MergeFrom, Phase, TypeOK
  <2>2. ToNodeMap' \in [Value -> Value \cup {NoNode}] /\ FromNodeMap' \in [Value -> Value \cup {NoNode}]
    BY <1>2, <1>11 DEF MergeFrom, MovedEdge, Erased, TypeOK
  <2> QED BY <1>1, <1>11, <2>1, <2>2 DEF MergeFrom, TypeOK
<1>12. CASE MergeFromReturn
  <2>1. ToNodeMap' \in [Value -> Value \cup {NoNode}] /\ FromNodeMap' \in [Value -> Value \cup {NoNode}]
    BY <1>2, <1>12 DEF MergeFromReturn, AddEdge, TypeOK
  <2> QED BY <1>1, <1>3, <1>12, <2>1 DEF MergeFromReturn, TypeOK
<1> QED BY <1>6, <1>7, <1>8, <1>9, <1>10, <1>11, <1>12 DEF Merge

LEMMA TypeStep == TypeOK /\ [Next]_vars => TypeOK'
<1> SUFFICES ASSUME TypeOK, [Next]_vars
             PROVE  TypeOK'
  OBVIOUS
<1>1. CASE Merge
  BY <1>1, MergeType
<1>2. ASSUME NEW i \in Calls, HandleInst(i)
      PROVE  TypeOK'
  BY <1>2, HandleInstType
<1>3. CASE UNCHANGED vars
  BY <1>3 DEF vars, graph, TypeOK
<1> QED BY <1>1, <1>2, <1>3 DEF Next

LEMMA TypeInit == Init => TypeOK
BY DEF Init, TypeOK

\* Every variable of a context keeps its type: in particular no handler hands
\* mergeNode a null node, which it would dereference.
THEOREM TypeCorrect == Spec => []TypeOK
BY TypeInit, TypeStep, PTL DEF Spec

-----------------------------------------------------------------------------
(* The partition of the values.  It is inductive together with the fact    *)
(* that only born nodes, those created for a value inserted before, are in *)
(* use: a handler that creates node v overwrites whatever node v held.     *)

Born(n) == NodeMap[n] # NoNode
FrameBorn(fr) == /\ Born(fr.n1) /\ Born(fr.n2)
                 /\ fr.m1 # NoNode => Born(fr.m1)
                 /\ fr.m2 # NoNode => Born(fr.m2)

ClassesBorn == \A n \in Value : aliasclass[n] # {} => Born(n)
EdgesBorn == \A n \in Value : /\ ToNodeMap[n] # NoNode => Born(ToNodeMap[n])
                              /\ FromNodeMap[n] # NoNode => Born(FromNodeMap[n])
StackBorn == \A j \in 1..Len(stack) : FrameBorn(stack[j])

Inv == TypeOK /\ Partition /\ ClassesBorn /\ EdgesBorn /\ StackBorn

\* The three ways a step changes the classes.
Copied(v1, v2, S) ==
  LET nodes == NodeMapWith(S \cup {v2})
  IN  /\ nodes[v1] = NoNode
      /\ NodeMap' = [nodes EXCEPT ![v1] = nodes[v2]]
      /\ aliasclass' = [ClassesWith(S \cup {v2}) EXCEPT ![nodes[v2]] = @ \cup {v1}]
United(n1, n2) ==
  /\ n1 # n2
  /\ NodeMap' = [v \in Value |-> IF v \in aliasclass[n1] THEN n2 ELSE NodeMap[v]]
  /\ aliasclass' = ClassesMerged(n1, n2)
Entered == \E S \in SUBSET Value :
  CreateNodes(S) \/ \E v1, v2 \in Value : Copied(v1, v2, S)

LEMMA NodesBorn ==
  ASSUME TypeOK, Partition, ClassesBorn, NEW v \in Value, Born(v)
  PROVE  NodeMap[v] \in Value /\ Born(NodeMap[v])
<1>1. NodeMap[v] \in Value
  BY DEF Born, TypeOK
<1>2. v \in aliasclass[NodeMap[v]]
  BY <1>1 DEF Partition
<1> QED BY <1>1, <1>2 DEF ClassesBorn

LEMMA WithPartition ==
  ASSUME TypeOK, Partition, ClassesBorn, NEW S \in SUBSET Value
  PROVE  \A v, n \in Value : NodeMapWith(S)[v] = n <=> v \in ClassesWith(S)[n]
<1> DEFINE nodes == NodeMapWith(S)
           classes == ClassesWith(S)
<1>1. /\ nodes = [v \in Value |-> IF v \in S /\ NodeMap[v] = NoNode THEN v ELSE NodeMap[v]]
      /\ classes = [n \in Value |-> IF n \in S /\ NodeMap[n] = NoNode THEN {n} ELSE aliasclass[n]]
  BY DEF NodeMapWith, ClassesWith
<1>2. \A n \in Value : n \in S /\ NodeMap[n] = NoNode => aliasclass[n] = {}
  BY DEF ClassesBorn, Born
<1> SUFFICES ASSUME NEW v \in Value, NEW n \in Value
             PROVE  nodes[v] = n <=> v \in classes[n]
  OBVIOUS
<1>3. CASE v \in S /\ NodeMap[v] = NoNode
  <2>1. \A m \in Value : v \notin aliasclass[m]
    BY <1>3, ValueAssumption DEF Partition
  <2> QED BY <1>1, <1>3, <2>1
<1>4. CASE ~(v \in S /\ NodeMap[v] = NoNode)
  <2>1. nodes[v] = NodeMap[v]
    BY <1>1, <1>4
  <2>2. CASE n \in S /\ NodeMap[n] = NoNode
    BY <1>1, <1>2, <1>4, <2>1, <2>2 DEF Partition
  <2>3. CASE ~(n \in S /\ NodeMap[n] = NoNode)
    BY <1>1, <2>1, <2>3 DEF Partition
  <2> QED BY <2>2, <2>3
<1> QED BY <1>3, <1>4

LEMMA CreateNodesKeeps ==
  ASSUME TypeOK, Partition, ClassesBorn, NEW S \in SUBSET Value, CreateNodes(S)
  PROVE  /\ Partition' /\ ClassesBorn'
         /\ \A v \in Value : Born(v) => Born(v)'
         /\ \A v \in S : NodeMap'[v] = NodeMapWith(S)[v] /\ NodeMap'[v] \in Value /\ Born(NodeMap[v])'
<1>1. /\ NodeMap' = [v \in Value |-> IF v \in S /\ NodeMap[v] = NoNode THEN v ELSE NodeMap[v]]
      /\ aliasclass' = [n \in Value |-> IF n \in S /\ NodeMap[n] = NoNode THEN {n} ELSE aliasclass[n]]
  BY DEF CreateNodes, NodeMapWith, ClassesWith
<1>3. Partition'
  BY WithPartition DEF CreateNodes, Partition
<1>4. \A v \in Value : Born(v) => Born(v)'
  BY <1>1 DEF Born
<1>5. ClassesBorn'
  BY <1>1, <1>4, ValueAssumption DEF ClassesBorn, Born
<1>6. ASSUME NEW v \in S
      PROVE  NodeMap'[v] \in Value /\ Born(NodeMap[v])'
  <2>1. CASE NodeMap[v] = NoNode
    BY <1>1, <2>1, ValueAssumption DEF Born
  <2>2. CASE NodeMap[v] # NoNode
    BY <1>1, <1>4, <2>2, NodesBorn DEF Born
  <2> QED BY <2>1, <2>2
<1>7. \A v \in S : NodeMap'[v] = NodeMapWith(S)[v]
  BY DEF CreateNodes
<1> QED BY <1>3, <1>4, <1>5, <1>6, <1>7

LEMMA CopiedKeeps ==
  ASSUME TypeOK, Partition, ClassesBorn, NEW S \in SUBSET Value,
         NEW v1 \in Value, NEW v2 \in Value, Copied(v1, v2, S)
  PROVE  /\ Partition' /\ ClassesBorn'
         /\ \A v \in Value : Born(v) => Born(v)'
<1> DEFINE T == S \cup {v2}
           nodes == NodeMapWith(T)
           classes == ClassesWith(T)
           n2 == nodes[v2]
<1>1. /\ nodes = [v \in Value |-> IF v \in T /\ NodeMap[v] = NoNode THEN v ELSE NodeMap[v]]
      /\ classes = [n \in Value |-> IF n \in T /\ NodeMap[n] = NoNode THEN {n} ELSE aliasclass[n]]
  BY DEF NodeMapWith, ClassesWith
<1>2. /\ nodes[v1] = NoNode
      /\ NodeMap' = [nodes EXCEPT ![v1] = n2]
      /\ aliasclass' = [classes EXCEPT ![n2] = @ \cup {v1}]
  BY DEF Copied
<1>3. v1 \notin T /\ NodeMap[v1] = NoNode
  BY <1>1, <1>2, ValueAssumption
<1>4. n2 \in Value /\ (n2 = v2 \/ (n2 = NodeMap[v2] /\ Born(v2)))
  BY <1>1 DEF TypeOK, Born
<1>5. \A v, n \in Value : nodes[v] = n <=> v \in classes[n]
  BY WithPartition
<1>6. nodes \in [Value -> Value \cup {NoNode}] /\ classes \in [Value -> SUBSET Value]
  BY NodeMapWithType
<1>7. \A v \in Value : Born(v) => nodes[v] # NoNode
  BY <1>1 DEF Born
<1>8. nodes[n2] # NoNode
  <2>1. CASE n2 = v2
    BY <1>1, <2>1, ValueAssumption
  <2>2. CASE n2 = NodeMap[v2] /\ Born(v2)
    BY <1>7, <2>2, <1>4, NodesBorn
  <2> QED BY <1>4, <2>1, <2>2
<1>9. \A n \in Value : classes[n] # {} => nodes[n] # NoNode
  BY <1>1, ValueAssumption DEF ClassesBorn, Born
<1> HIDE DEF nodes, classes, n2, T
<1>10. Partition'
  <2> SUFFICES ASSUME NEW v \in Value, NEW n \in Value
               PROVE  NodeMap'[v] = n <=> v \in aliasclass'[n]
    BY DEF Partition
  <2>1. NodeMap'[v] = IF v = v1 THEN n2 ELSE nodes[v]
    BY <1>2, <1>6
  <2>2. aliasclass'[n] = IF n = n2 THEN classes[n] \cup {v1} ELSE classes[n]
    BY <1>2, <1>6
  <2>3. \A m \in Value : v1 \notin classes[m]
    BY <1>2, <1>5, ValueAssumption
  <2> QED BY <1>5, <2>1, <2>2, <2>3
<1>11. \A v \in Value : nodes[v] # NoNode => Born(v)'
  BY <1>2, <1>4, <1>6, ValueAssumption DEF Born
<1>12. ClassesBorn'
  BY <1>2, <1>6, <1>8, <1>9, <1>11 DEF ClassesBorn
<1> QED BY <1>7, <1>10, <1>11, <1>12

LEMMA UnitedKeeps ==
  ASSUME TypeOK, Partition, ClassesBorn, NEW n1 \in Value, NEW n2 \in Value,
         Born(n2), United(n1, n2)
  PROVE  /\ Partition' /\ ClassesBorn'
         /\ \A v \in Value : Born(v) => Born(v)'
<1>1. /\ n1 # n2
      /\ NodeMap' = [v \in Value |-> IF v \in aliasclass[n1] THEN n2 ELSE NodeMap[v]]
      /\ aliasclass' = [aliasclass EXCEPT ![n1] = {}, ![n2] = @ \cup aliasclass[n1]]
  BY DEF United, ClassesMerged
<1>2. \A n \in Value : aliasclass'[n] = IF n = n2 THEN aliasclass[n2] \cup aliasclass[n1]
                                       ELSE IF n = n1 THEN {} ELSE aliasclass[n]
  BY <1>1 DEF TypeOK
<1>3. Partition'
  <2> SUFFICES ASSUME NEW v \in Value, NEW n \in Value
               PROVE  NodeMap'[v] = n <=> v \in aliasclass'[n]
    BY DEF Partition
  <2>1. CASE v \in aliasclass[n1]
    <3>1. \A m \in Value : v \in aliasclass[m] <=> m = n1
      BY <2>1 DEF Partition
    <3>2. NodeMap'[v] = n2
      BY <1>1, <2>1
    <3>3. CASE n = n2
      BY <1>2, <2>1, <3>2, <3>3
    <3>4. CASE n # n2
      <4>1. v \notin aliasclass'[n]
        BY <1>2, <3>1, <3>4
      <4> QED BY <3>2, <3>4, <4>1
    <3> QED BY <3>3, <3>4
  <2>2. CASE v \notin aliasclass[n1]
    <3>1. NodeMap'[v] = NodeMap[v] /\ NodeMap[v] # n1
      BY <1>1, <2>2 DEF Partition
    <3>2. v \in aliasclass'[n] <=> v \in aliasclass[n]
      <4>1. CASE n = n2
        BY <1>2, <2>2, <4>1
      <4>2. CASE n = n1
        <5>1. aliasclass'[n1] = {}
          BY <1>2 DEF United
        <5> QED BY <2>2, <4>2, <5>1
      <4>3. CASE n # n1 /\ n # n2
        BY <1>2, <4>3
      <4> QED BY <4>1, <4>2, <4>3
    <3> QED BY <3>1, <3>2 DEF Partition
  <2> QED BY <2>1, <2>2
<1>4. \A v \in Value : Born(v) => Born(v)'
  BY <1>1, ValueAssumption DEF Born
<1>5. ClassesBorn'
  BY <1>2, <1>4 DEF ClassesBorn
<1> QED BY <1>3, <1>4, <1>5

(* Nodes stay born, so the frames and edges a step keeps stay born. *)

StaysBorn == \A v \in Value : Born(v) => Born(v)'

LEMMA FramesStayBorn ==
  ASSUME TypeOK, StackBorn, StaysBorn
  PROVE  \A j \in 1..Len(stack) :
           /\ stack[j].n1 \in Value /\ Born(stack[j].n1) /\ NodeMap'[stack[j].n1] # NoNode
           /\ stack[j].n2 \in Value /\ Born(stack[j].n2) /\ NodeMap'[stack[j].n2] # NoNode
           /\ stack[j].m1 # NoNode => Born(stack[j].m1) /\ NodeMap'[stack[j].m1] # NoNode
           /\ stack[j].m2 # NoNode => Born(stack[j].m2) /\ NodeMap'[stack[j].m2] # NoNode
<1> SUFFICES ASSUME NEW j \in 1..Len(stack)
             PROVE  /\ stack[j].n1 \in Value /\ Born(stack[j].n1) /\ NodeMap'[stack[j].n1] # NoNode
                    /\ stack[j].n2 \in Value /\ Born(stack[j].n2) /\ NodeMap'[stack[j].n2] # NoNode
                    /\ stack[j].m1 # NoNode => Born(stack[j].m1) /\ NodeMap'[stack[j].m1] # NoNode
                    /\ stack[j].m2 # NoNode => Born(stack[j].m2) /\ NodeMap'[stack[j].m2] # NoNode
  OBVIOUS
<1>1. stack[j] \in Frame
  BY DEF TypeOK
<1>2. /\ stack[j].n1 \in Value /\ stack[j].n2 \in Value
      /\ stack[j].m1 \in Value \cup {NoNode} /\ stack[j].m2 \in Value \cup {NoNode}
  BY <1>1 DEF Frame
<1>3. FrameBorn(stack[j])
  BY DEF StackBorn
<1>4. \A v \in Value : NodeMap[v] # NoNode => NodeMap'[v] # NoNode
  BY DEF StaysBorn, Born
<1> QED BY <1>2, <1>3, <1>4 DEF FrameBorn, Born

LEMMA StackKeeps ==
  ASSUME TypeOK, StackBorn, StaysBorn,
         \/ UNCHANGED stack
         \/ stack # <<>> /\ Pop
         \/ stack # <<>> /\ \E at \in Phase : GoOn(at)
  PROVE  StackBorn'
<1>1. /\ Len(stack') \in Nat /\ Len(stack') <= Len(stack)
      /\ \A j \in 1..Len(stack') : /\ stack'[j].n1 = stack[j].n1
                                   /\ stack'[j].n2 = stack[j].n2
                                   /\ stack'[j].m1 = stack[j].m1
                                   /\ stack'[j].m2 = stack[j].m2
  <2>0. stack \in Seq(Frame) /\ Len(stack) \in Nat
    BY DEF TypeOK
  <2>1. CASE UNCHANGED stack
    BY <2>0, <2>1
  <2>2. CASE stack # <<>> /\ Pop
    BY <2>0, <2>2, PopType
  <2>3. CASE stack # <<>> /\ \E at \in Phase : GoOn(at)
    BY <2>0, <2>3, GoOnType
  <2> QED BY <2>1, <2>2, <2>3
<1>2. 1..Len(stack') \subseteq 1..Len(stack)
  BY <1>1 DEF TypeOK
<1> QED BY <1>1, <1>2, FramesStayBorn DEF StackBorn, FrameBorn, Born

LEMMA PushKeeps ==
  ASSUME TypeOK, StackBorn, StaysBorn, NEW n1 \in Value, NEW n2 \in Value,
         NodeMap'[n1] # NoNode, NodeMap'[n2] # NoNode, mergeNode(n1, n2)
  PROVE  StackBorn'
<1>1. /\ Len(stack) \in Nat /\ Len(stack') = Len(stack) + 1
      /\ \A j \in 1..Len(stack) : stack'[j] = stack[j]
      /\ stack'[Len(stack) + 1] = Activation(n1, n2, "enter", NoNode, NoNode)
  BY PushType DEF TypeOK
<1> SUFFICES ASSUME NEW j \in 1..Len(stack')
             PROVE  FrameBorn(stack[j])'
  BY DEF StackBorn
<1>2. CASE j \in 1..Len(stack)
  BY <1>1, <1>2, FramesStayBorn DEF FrameBorn, Born
<1>3. CASE j = Len(stack) + 1
  BY <1>1, <1>3 DEF Activation, FrameBorn, Born
<1> QED BY <1>1, <1>2, <1>3

LEMMA RecurseKeeps ==
  ASSUME TypeOK, StackBorn, StaysBorn, stack # <<>>, NEW at \in Phase,
         NEW m1 \in Value, NEW m2 \in Value,
         NodeMap'[m1] # NoNode, NodeMap'[m2] # NoNode, Recurse(at, m1, m2)
  PROVE  StackBorn'
<1>1. Len(stack) \in Nat \ {0} /\ Len(stack) \in 1..Len(stack)
  BY TopType DEF TypeOK
<1>2. /\ Len(stack') = Len(stack) + 1
      /\ \A j \in 1..(Len(stack) - 1) : stack'[j] = stack[j]
      /\ stack'[Len(stack)] = Activation(top.n1, top.n2, at, m1, m2)
      /\ stack'[Len(stack) + 1] = Activation(m1, m2, "enter", NoNode, NoNode)
  BY RecurseType DEF TypeOK
<1> SUFFICES ASSUME NEW j \in 1..Len(stack')
             PROVE  FrameBorn(stack[j])'
  BY DEF StackBorn
<1>3. CASE j \in 1..(Len(stack) - 1)
  <2>1. j \in 1..Len(stack) /\ stack'[j] = stack[j]
    BY <1>1, <1>2, <1>3
  <2> QED BY <2>1, FramesStayBorn DEF FrameBorn, Born
<1>4. CASE j = Len(stack)
  <2>1. NodeMap'[top.n1] # NoNode /\ NodeMap'[top.n2] # NoNode
    BY <1>1, FramesStayBorn DEF top
  <2> QED BY <1>2, <1>4, <2>1 DEF Activation, FrameBorn, Born
<1>5. CASE j = Len(stack) + 1
  BY <1>2, <1>5 DEF Activation, FrameBorn, Born
<1> QED BY <1>1, <1>2, <1>3, <1>4, <1>5

LEMMA EdgesKeep ==
  ASSUME TypeOK, EdgesBorn, StaysBorn, UNCHANGED <<ToNodeMap, FromNodeMap>>
  PROVE  EdgesBorn'
<1>1. \A v \in Value : NodeMap[v] # NoNode => NodeMap'[v] # NoNode
  BY DEF StaysBorn, Born
<1> QED BY <1>1 DEF EdgesBorn, Born, TypeOK

LEMMA AddEdgeKeeps ==
  ASSUME TypeOK, EdgesBorn, StaysBorn, NEW from \in Value, NEW to \in Value \cup {NoNode},
         NodeMap'[from] # NoNode, to # NoNode => NodeMap'[to] # NoNode, AddEdge(from, to)
  PROVE  EdgesBorn'
<1>1. \A v \in Value : NodeMap[v] # NoNode => NodeMap'[v] # NoNode
  BY DEF StaysBorn, Born
<1> QED BY <1>1 DEF AddEdge, EdgesBorn, Born, TypeOK

LEMMA PointToKeeps ==
  ASSUME TypeOK, EdgesBorn, StackBorn, StaysBorn, NEW n1 \in Value, NEW n2 \in Value,
         NodeMap'[n1] # NoNode, NodeMap'[n2] # NoNode, PointTo(n1, n2)
  PROVE  EdgesBorn' /\ StackBorn'
<1>1. \A v \in Value : NodeMap[v] # NoNode => NodeMap'[v] # NoNode
  BY DEF StaysBorn, Born
<1>2. CASE ToNodeMap[n2] # NoNode /\ mergeNode(n1, ToNodeMap[n2]) /\ UNCHANGED <<ToNodeMap, FromNodeMap>>
  <2>1. ToNodeMap[n2] \in Value /\ NodeMap'[ToNodeMap[n2]] # NoNode
    BY <1>1, <1>2 DEF TypeOK, EdgesBorn, Born
  <2> QED BY <1>2, <2>1, PushKeeps, EdgesKeep
<1>3. CASE FromNodeMap[n1] # NoNode /\ mergeNode(FromNodeMap[n1], n2) /\ UNCHANGED <<ToNodeMap, FromNodeMap>>
  <2>1. FromNodeMap[n1] \in Value /\ NodeMap'[FromNodeMap[n1]] # NoNode
    BY <1>1, <1>3 DEF TypeOK, EdgesBorn, Born
  <2> QED BY <1>3, <2>1, PushKeeps, EdgesKeep
<1>4. CASE AddEdge(n2, n1) /\ UNCHANGED stack
  BY <1>4, AddEdgeKeeps, StackKeeps
<1> QED BY <1>2, <1>3, <1>4 DEF PointTo

(* Every step keeps the invariant and changes the classes in a known way. *)

ClassStep == \/ Entered
             \/ \E n1, n2 \in Value : United(n1, n2)
             \/ UNCHANGED <<NodeMap, aliasclass>>

Kept == Partition' /\ ClassesBorn' /\ EdgesBorn' /\ StackBorn' /\ ClassStep

LEMMA NothingKeeps ==
  ASSUME Inv, UNCHANGED <<NodeMap, aliasclass>>
  PROVE  Partition' /\ ClassesBorn' /\ StaysBorn /\ ClassStep
BY DEF Inv, Partition, ClassesBorn, StaysBorn, Born, ClassStep

LEMMA SkipStoreKeeps ==
  ASSUME Inv, SkipStore
  PROVE  Kept
<1>1. UNCHANGED <<NodeMap, aliasclass, ToNodeMap, FromNodeMap, stack>>
  BY DEF SkipStore, graph
<1> QED BY <1>1, NothingKeeps, EdgesKeep, StackKeeps DEF Kept, Inv

LEMMA EnterKeeps ==
  ASSUME Inv, NEW S \in SUBSET Value, CreateNodes(S)
  PROVE  /\ Partition' /\ ClassesBorn' /\ StaysBorn /\ ClassStep
         /\ \A v \in S : NodeMapWith(S)[v] \in Value /\ NodeMap'[NodeMapWith(S)[v]] # NoNode
<1>1. TypeOK /\ Partition /\ ClassesBorn
  BY DEF Inv
<1>2. /\ Partition' /\ ClassesBorn'
      /\ \A v \in Value : Born(v) => Born(v)'
      /\ \A v \in S : NodeMap'[v] = NodeMapWith(S)[v] /\ NodeMap'[v] \in Value /\ Born(NodeMap[v])'
  BY <1>1, CreateNodesKeeps
<1>3. \A v \in S : NodeMapWith(S)[v] \in Value /\ NodeMap'[NodeMapWith(S)[v]] # NoNode
  BY <1>2 DEF Born
<1> QED BY <1>2, <1>3 DEF StaysBorn, ClassStep, Entered

LEMMA StoreIntoKeeps ==
  ASSUME Inv, NEW v1 \in Value, NEW v2 \in Value, StoreInto(v1, v2)
  PROVE  Kept
<1> DEFINE n1 == NodeMapWith({v1, v2})[v1]
           n2 == NodeMapWith({v1, v2})[v2]
<1>1. CreateNodes({v1, v2})
  BY DEF StoreInto
<1>2. /\ Partition' /\ ClassesBorn' /\ StaysBorn /\ ClassStep
      /\ n1 \in Value /\ NodeMap'[n1] # NoNode
      /\ n2 \in Value /\ NodeMap'[n2] # NoNode
  BY <1>1, EnterKeeps
<1>3. \/ UNCHANGED <<ToNodeMap, FromNodeMap, stack>>
      \/ PointTo(n1, n2)
  BY DEF StoreInto
<1> HIDE DEF n1, n2
<1>4. EdgesBorn' /\ StackBorn'
  BY <1>2, <1>3, EdgesKeep, StackKeeps, PointToKeeps DEF Inv
<1> QED BY <1>2, <1>4 DEF Kept

LEMMA MoveKeeps ==
  ASSUME Inv, NEW v1 \in Value, NEW v2 \in Value, NEW S \in SUBSET Value, Move(v1, v2, S)
  PROVE  Kept
<1> DEFINE T == S \cup {v2}
           nodes == NodeMapWith(T)
           n1 == nodes[v1]
           n2 == nodes[v2]
<1>1. TypeOK /\ Partition /\ ClassesBorn /\ EdgesBorn /\ StackBorn /\ T \in SUBSET Value
  BY DEF Inv
<1>2. UNCHANGED <<ToNodeMap, FromNodeMap>>
  BY DEF Move
<1>3. CASE /\ n1 = NoNode
           /\ NodeMap' = [nodes EXCEPT ![v1] = n2]
           /\ aliasclass' = [ClassesWith(T) EXCEPT ![n2] = @ \cup {v1}]
           /\ UNCHANGED stack
  <2>1. Copied(v1, v2, S) /\ UNCHANGED stack
    BY <1>3 DEF Copied
  <2>2. Partition' /\ ClassesBorn' /\ StaysBorn
    BY <1>1, <2>1, CopiedKeeps DEF StaysBorn
  <2>3. EdgesBorn' /\ StackBorn'
    BY <1>1, <1>2, <2>1, <2>2, EdgesKeep, StackKeeps
  <2> QED BY <2>1, <2>2, <2>3 DEF Kept, ClassStep, Entered
<1>4. CASE CreateNodes(T) /\ UNCHANGED stack
  <2>1. Partition' /\ ClassesBorn' /\ StaysBorn /\ ClassStep
    BY <1>1, <1>4, EnterKeeps
  <2> QED BY <1>1, <1>2, <1>4, <2>1, EdgesKeep, StackKeeps DEF Kept
<1>5. CASE n1 # NoNode /\ CreateNodes(T) /\ mergeNode(n1, n2)
  <2>1. /\ Partition' /\ ClassesBorn' /\ StaysBorn /\ ClassStep
        /\ \A v \in T : nodes[v] \in Value /\ NodeMap'[nodes[v]] # NoNode
    BY <1>1, <1>5, EnterKeeps
  <2>2. n1 \in Value /\ NodeMap'[n1] # NoNode
    <3>1. CASE v1 \in T
      BY <2>1, <3>1
    <3>2. CASE v1 \notin T
      <4>1. n1 = NodeMap[v1] /\ Born(v1)
        BY <1>5, <3>2 DEF NodeMapWith, Born
      <4>2. NodeMap[v1] \in Value /\ Born(NodeMap[v1])
        BY <1>1, <4>1, NodesBorn
      <4> QED BY <2>1, <4>1, <4>2 DEF StaysBorn, Born
    <3> QED BY <3>1, <3>2
  <2>3. n2 \in Value /\ NodeMap'[n2] # NoNode
    BY <2>1
  <2> HIDE DEF n1, n2
  <2>4. EdgesBorn' /\ StackBorn'
    BY <1>1, <1>2, <1>5, <2>1, <2>2, <2>3, EdgesKeep, PushKeeps
  <2> QED BY <2>1, <2>4 DEF Kept
<1> QED BY <1>3, <1>4, <1>5 DEF Move

LEMMA HandleInstKeeps ==
  ASSUME Inv, NEW i \in Calls, HandleInst(i)
  PROVE  Kept
<1>1. CASE HandleAlloc(i)
  <2>1. i.v1 \in Value /\ CreateNodes({i.v1}) /\ UNCHANGED <<ToNodeMap, FromNodeMap, stack>>
    BY <1>1, CallFields DEF HandleAlloc
  <2> QED BY <2>1, EnterKeeps, EdgesKeep, StackKeeps DEF Kept, Inv
<1>2. CASE HandleLoad(i)
  <2> DEFINE n1 == NodeMapWith({i.v1, i.v2})[i.v1]
             n2 == NodeMapWith({i.v1, i.v2})[i.v2]
  <2>1. i.v1 \in Value /\ i.v2 \in Value /\ CreateNodes({i.v1, i.v2}) /\ PointTo(n1, n2)
    BY <1>2, CallFields DEF HandleLoad
  <2>2. /\ Partition' /\ ClassesBorn' /\ StaysBorn /\ ClassStep
        /\ n1 \in Value /\ NodeMap'[n1] # NoNode
        /\ n2 \in Value /\ NodeMap'[n2] # NoNode
    BY <2>1, EnterKeeps
  <2> HIDE DEF n1, n2
  <2> QED BY <2>1, <2>2, PointToKeeps DEF Kept, Inv
<1>3. CASE HandleStoreInst(i)
  <2>1. i.v1 \in Value /\ i.v2 \in Value
    BY <1>3, CallFields DEF HandleStoreInst
  <2>2. SkipStore \/ StoreInto(i.v1, i.v2)
    BY <1>3 DEF HandleStoreInst
  <2> QED BY <2>1, <2>2, SkipStoreKeeps, StoreIntoKeeps
<1>4. CASE HandleStore(i)
  <2>1. i.v1 \in Value /\ i.v2 \in Value
    BY <1>4, CallFields DEF HandleStore
  <2>2. SkipStore \/ StoreInto(i.v1, i.v2)
    BY <1>4 DEF HandleStore
  <2> QED BY <2>1, <2>2, SkipStoreKeeps, StoreIntoKeeps
<1>5. CASE HandleMove(i)
  <2>1. i.v1 \in Value /\ i.v2 \in Value /\ Move(i.v1, i.v2, {})
    BY <1>5, CallFields DEF HandleMove
  <2> QED BY <2>1, MoveKeeps
<1>6. CASE HandleReturnInst(i)
  <2>1. i.v1 \in Value /\ i.v2 \in Value
    BY <1>6, CallFields DEF HandleReturnInst
  <2>2. SkipStore \/ Move(i.v1, i.v2, {})
    BY <1>6 DEF HandleReturnInst
  <2> QED BY <2>1, <2>2, SkipStoreKeeps, MoveKeeps
<1>7. CASE HandleCai(i)
  <2> DEFINE T == {i.cai} \cup i.args
  <2>1. CASE /\ i.op = "call"
             /\ CreateNodes(T)
             /\ UNCHANGED <<TBAATag, ToNodeMap, FromNodeMap, symbolGet, blockedMerges, stack>>
    <3>1. T \in SUBSET Value
      BY <2>1, CallFields
    <3> QED BY <2>1, <3>1, EnterKeeps, EdgesKeep, StackKeeps DEF Kept, Inv
  <2>2. CASE i.op = "copycall" /\ Move(i.v1, i.v2, T)
    <3>1. T \in SUBSET Value /\ i.v1 \in Value /\ i.v2 \in Value
      BY <2>2, CallFields
    <3> QED BY <2>2, <3>1, MoveKeeps
  <2>3. CASE i.op = "symbol_get" /\ Move(i.cai, i.f, T)
    <3>1. T \in SUBSET Value /\ i.cai \in Value /\ i.f \in Value
      BY <2>3, CallFields, ValueAssumption
    <3> QED BY <2>3, <3>1, MoveKeeps
  <2> QED BY <1>7, <2>1, <2>2, <2>3 DEF HandleCai
<1> QED BY <1>1, <1>2, <1>3, <1>4, <1>5, <1>6, <1>7 DEF HandleInst

LEMMA MergeKeeps ==
  ASSUME Inv, Merge
  PROVE  Kept
<1>1. TypeOK /\ Partition /\ ClassesBorn /\ EdgesBorn /\ StackBorn
  BY DEF Inv
<1>2. stack # <<>> /\ stack \in Seq(Frame)
  BY <1>1 DEF Merge, MergeBlocked, MergeSelf, MergeValues, MergeTo, MergeToReturn, MergeFrom,
              MergeFromReturn, Running, TypeOK
<1>3. /\ top.n1 \in Value /\ Born(top.n1)
      /\ top.n2 \in Value /\ Born(top.n2)
      /\ top.m1 \in Value \cup {NoNode} /\ (top.m1 # NoNode => Born(top.m1))
      /\ top.m2 \in Value \cup {NoNode} /\ (top.m2 # NoNode => Born(top.m2))
  <2>1. top \in Frame /\ Len(stack) \in 1..Len(stack)
    BY <1>2, TopType
  <2>2. FrameBorn(top)
    BY <1>1, <2>1 DEF StackBorn, top
  <2> QED BY <2>1, <2>2 DEF Frame, FrameBorn
<1>4. CASE MergeBlocked \/ MergeSelf
  <2>1. UNCHANGED <<NodeMap, aliasclass, ToNodeMap, FromNodeMap>> /\ Pop
    BY <1>4 DEF MergeBlocked, MergeSelf, graph
  <2> QED BY <1>1, <1>2, <2>1, NothingKeeps, EdgesKeep, StackKeeps DEF Kept
<1>5. CASE MergeValues
  <2>1. /\ United(top.n1, top.n2) /\ UNCHANGED <<ToNodeMap, FromNodeMap>>
        /\ \E at \in Phase : GoOn(at)
    BY <1>5 DEF MergeValues, United, Phase
  <2>2. Partition' /\ ClassesBorn' /\ StaysBorn /\ ClassStep
    BY <1>1, <1>3, <2>1, UnitedKeeps DEF StaysBorn, ClassStep
  <2> QED BY <1>1, <1>2, <2>1, <2>2, EdgesKeep, StackKeeps DEF Kept
<1>6. ASSUME UNCHANGED <<NodeMap, aliasclass>>
      PROVE  /\ Partition' /\ ClassesBorn' /\ StaysBorn /\ ClassStep
             /\ \A v \in Value : Born(v) <=> NodeMap'[v] # NoNode
  BY <1>6, NothingKeeps DEF Born
<1>7. CASE MergeTo
  <2> DEFINE n1 == top.n1
             n2 == top.n2
             m1 == ToNodeMap[n1]
             m2 == ToNodeMap[n2]
  <2>1. UNCHANGED <<NodeMap, aliasclass>>
    BY <1>7 DEF MergeTo
  <2>2. /\ m1 # NoNode => m1 \in Value /\ NodeMap'[m1] # NoNode
        /\ m2 # NoNode => m2 \in Value /\ NodeMap'[m2] # NoNode
    BY <1>1, <1>3, <1>6, <2>1 DEF EdgesBorn, TypeOK
  <2>3. StackBorn'
    <3>1. (\E at \in Phase : GoOn(at)) \/ (m1 # NoNode /\ m2 # NoNode /\ Recurse("toReturn", m1, m2))
      BY <1>7 DEF MergeTo, Phase
    <3>2. "toReturn" \in Phase
      BY DEF Phase
    <3> QED BY <1>1, <1>2, <1>6, <2>1, <2>2, <3>1, <3>2, StackKeeps, RecurseKeeps
  <2>4. EdgesBorn'
    BY <1>1, <1>3, <1>7, <2>1 DEF MergeTo, MovedEdge, Erased, EdgesBorn, Born, TypeOK
  <2> QED BY <1>6, <2>1, <2>3, <2>4 DEF Kept
<1>8. CASE MergeToReturn
  <2>1. /\ UNCHANGED <<NodeMap, aliasclass>>
        /\ AddEdge(top.n2, top.m2) /\ \E at \in Phase : GoOn(at)
    BY <1>8 DEF MergeToReturn, Phase
  <2>2. NodeMap'[top.n2] # NoNode /\ (top.m2 # NoNode => NodeMap'[top.m2] # NoNode)
    BY <1>3, <2>1 DEF Born
  <2> QED BY <1>1, <1>2, <1>3, <1>6, <2>1, <2>2, AddEdgeKeeps, StackKeeps DEF Kept
<1>9. CASE MergeFrom
  <2> DEFINE n1 == top.n1
             n2 == top.n2
             m1 == FromNodeMap[n1]
             m2 == FromNodeMap[n2]
  <2>1. UNCHANGED <<NodeMap, aliasclass>>
    BY <1>9 DEF MergeFrom
  <2>2. /\ m1 # NoNode => m1 \in Value /\ NodeMap'[m1] # NoNode
        /\ m2 # NoNode => m2 \in Value /\ NodeMap'[m2] # NoNode
    BY <1>1, <1>3, <1>6, <2>1 DEF EdgesBorn, TypeOK
  <2>3. StackBorn'
    <3>1. Pop \/ (m1 # NoNode /\ m2 # NoNode /\ Recurse("fromReturn", m1, m2))
      BY <1>9 DEF MergeFrom
    <3>2. "fromReturn" \in Phase
      BY DEF Phase
    <3> QED BY <1>1, <1>2, <1>6, <2>1, <2>2, <3>1, <3>2, StackKeeps, RecurseKeeps
  <2>4. EdgesBorn'
    BY <1>1, <1>3, <1>9, <2>1 DEF MergeFrom, MovedEdge, Erased, EdgesBorn, Born, TypeOK
  <2> QED BY <1>6, <2>1, <2>3, <2>4 DEF Kept
<1>10. CASE MergeFromReturn
  <2>1. /\ UNCHANGED <<NodeMap, aliasclass>>
        /\ AddEdge(top.m2, top.n2) /\ Pop
    BY <1>10 DEF MergeFromReturn
  <2>2. EdgesBorn'
    BY <1>1, <1>3, <2>1 DEF AddEdge, EdgesBorn, Born, TypeOK
  <2> QED BY <1>1, <1>2, <1>6, <2>1, <2>2, StackKeeps DEF Kept
<1> QED BY <1>4, <1>5, <1>7, <1>8, <1>9, <1>10 DEF Merge

LEMMA InvStep ==
  ASSUME Inv, [Next]_vars
  PROVE  Inv' /\ ClassStep
<1>1. TypeOK'
  BY TypeStep DEF Inv
<1>2. CASE Merge
  BY <1>1, <1>2, MergeKeeps DEF Kept, Inv
<1>3. ASSUME NEW i \in Calls, HandleInst(i)
      PROVE  Inv' /\ ClassStep
  BY <1>1, <1>3, HandleInstKeeps DEF Kept, Inv
<1>4. CASE UNCHANGED vars
  <2>1. UNCHANGED <<NodeMap, aliasclass, ToNodeMap, FromNodeMap, stack>>
    BY <1>4 DEF vars, graph
  <2> QED BY <1>1, <2>1, NothingKeeps, EdgesKeep, StackKeeps DEF Inv
<1> QED BY <1>2, <1>3, <1>4 DEF Next

LEMMA InvInit == Init => Inv
<1> SUFFICES ASSUME Init PROVE Inv
  OBVIOUS
<1>1. TypeOK
  BY TypeInit
<1>2. Partition
  BY ValueAssumption DEF Init, Partition
<1>3. ClassesBorn /\ EdgesBorn /\ StackBorn
  BY DEF Init, ClassesBorn, EdgesBorn, StackBorn
<1> QED BY <1>1, <1>2, <1>3 DEF Inv

LEMMA Invariance == Spec => []Inv
<1>1. Inv /\ [Next]_vars => Inv'
  BY InvStep
<1> QED BY <1>1, InvInit, PTL DEF Spec

\* In every context, at every step of every merge, a value is in exactly the
\* class of the node NodeMap gives for it, and in no class before it has a node.
THEOREM PartitionAlways == Spec => []Partition
<1>1. Inv => Partition
  BY DEF Inv
<1> QED BY <1>1, Invariance, PTL

-----------------------------------------------------------------------------
(* The context implements the abstract classes. *)

ClassSet == {aliasclass[n] : n \in Value} \ {{}}

LEMMA KnownBorn ==
  ASSUME TypeOK, Partition
  PROVE  Classes!Known = {v \in Value : Born(v)}
<1>1. ASSUME NEW v \in Classes!Known
      PROVE  v \in Value /\ Born(v)
  <2>1. PICK n \in Value : v \in aliasclass[n]
    BY <1>1 DEF Classes!Known
  <2> QED BY <2>1, ValueAssumption DEF TypeOK, Partition, Born
<1>2. ASSUME NEW v \in Value, Born(v)
      PROVE  v \in Classes!Known
  <2>1. NodeMap[v] \in Value
    BY <1>2 DEF TypeOK, Born
  <2>2. v \in aliasclass[NodeMap[v]]
    BY <2>1 DEF Partition
  <2> QED BY <2>1, <2>2 DEF Classes!Known
<1> QED BY <1>1, <1>2

LEMMA EnterImage ==
  ASSUME TypeOK, Partition, ClassesBorn, NEW S \in SUBSET Value
  PROVE  {ClassesWith(S)[n] : n \in Value} \ {{}} = Classes!Alone(S)
<1>1. \A n \in Value : ClassesWith(S)[n] = IF n \in S /\ ~Born(n) THEN {n} ELSE aliasclass[n]
  BY DEF ClassesWith, Born
<1>2. Classes!Alone(S) = ClassSet \cup {{v} : v \in S \ {w \in Value : Born(w)}}
  BY KnownBorn DEF Classes!Alone, ClassSet
<1>3. ASSUME NEW n \in Value, ClassesWith(S)[n] # {}
      PROVE  ClassesWith(S)[n] \in Classes!Alone(S)
  <2>1. CASE n \in S /\ ~Born(n)
    BY <1>1, <1>2, <2>1
  <2>2. CASE ~(n \in S /\ ~Born(n))
    BY <1>1, <1>2, <1>3, <2>2 DEF ClassSet
  <2> QED BY <2>1, <2>2
<1>4. ASSUME NEW n \in Value, aliasclass[n] # {}
      PROVE  aliasclass[n] = ClassesWith(S)[n]
  BY <1>1, <1>4 DEF ClassesBorn
<1>5. ASSUME NEW v \in S, ~Born(v)
      PROVE  v \in Value /\ {v} = ClassesWith(S)[v]
  BY <1>1, <1>5
<1> DEFINE image == {ClassesWith(S)[n] : n \in Value} \ {{}}
<1>6. image \subseteq Classes!Alone(S)
  BY <1>3
<1>7. ASSUME NEW x \in Classes!Alone(S)
      PROVE  x \in image
  <2>1. CASE x \in ClassSet
    BY <1>4, <2>1 DEF ClassSet
  <2>2. CASE x \in {{v} : v \in S \ {w \in Value : Born(w)}}
    BY <1>5, <2>2
  <2> QED BY <1>2, <1>7, <2>1, <2>2
<1> QED BY <1>6, <1>7

LEMMA CopiedJoins ==
  ASSUME TypeOK, Partition, ClassesBorn, NEW S \in SUBSET Value,
         NEW v1 \in Value, NEW v2 \in Value, Copied(v1, v2, S)
  PROVE  Classes!Join
<1> DEFINE T == S \cup {v2}
           classes == ClassesWith(T)
           n2 == NodeMapWith(T)[v2]
           c == classes[n2]
<1>1. /\ NodeMapWith(T)[v1] = NoNode
      /\ aliasclass' = [classes EXCEPT ![n2] = @ \cup {v1}]
  BY DEF Copied
<1>2. n2 \in Value /\ classes \in [Value -> SUBSET Value]
  BY NodeMapWithType
<1>3. \A v, n \in Value : NodeMapWith(T)[v] = n <=> v \in classes[n]
  BY WithPartition
<1>4. v2 \in c
  <2>1. NodeMapWith(T)[v2] = n2
    OBVIOUS
  <2> HIDE DEF n2, classes
  <2> QED BY <1>2, <1>3, <2>1
<1>5. \A n \in Value : n # n2 => v2 \notin classes[n]
  BY <1>2, <1>3
<1>6. v1 \notin T /\ ~Born(v1)
  BY <1>1, ValueAssumption DEF NodeMapWith, Born
<1>7. v1 \in Value \ (T \cup Classes!Known)
  BY <1>6, KnownBorn
<1>8. {classes[n] : n \in Value} \ {{}} = Classes!Alone(T)
  BY EnterImage
<1>9. \A n \in Value : aliasclass'[n] = IF n = n2 THEN c \cup {v1} ELSE classes[n]
  BY <1>1, <1>2
<1>10. c \in Classes!Alone(T)
  BY <1>2, <1>4, <1>8
<1> HIDE DEF classes, n2, c, T
<1>11. ClassSet' = (({classes[n] : n \in Value} \ {{}}) \ {c}) \cup {c \cup {v1}}
  <2>1. ASSUME NEW n \in Value, aliasclass'[n] # {}
        PROVE  aliasclass'[n] \in (({classes[m] : m \in Value} \ {{}}) \ {c}) \cup {c \cup {v1}}
    BY <1>4, <1>5, <1>9, <2>1
  <2>2. c \cup {v1} \in ClassSet'
    BY <1>2, <1>9 DEF ClassSet
  <2>3. ASSUME NEW n \in Value, classes[n] # {}, classes[n] # c
        PROVE  classes[n] \in ClassSet'
    <3>1. n # n2
      BY <2>3 DEF c
    <3> QED BY <1>9, <2>3, <3>1 DEF ClassSet
  <2>4. ClassSet' = {aliasclass'[n] : n \in Value} \ {{}}
    BY DEF ClassSet
  <2> DEFINE joined == (({classes[n] : n \in Value} \ {{}}) \ {c}) \cup {c \cup {v1}}
  <2>5. ClassSet' \subseteq joined
    BY <2>1, <2>4
  <2>6. joined \subseteq ClassSet'
    BY <2>2, <2>3
  <2> QED BY <2>5, <2>6
<1>12. T \in SUBSET Value
  BY DEF T
<1> QED BY <1>7, <1>8, <1>10, <1>11, <1>12 DEF Classes!Join, ClassSet

LEMMA UnitedUnites ==
  ASSUME TypeOK, Partition, NEW n1 \in Value, NEW n2 \in Value, United(n1, n2)
  PROVE  Classes!Unite \/ ClassSet' = ClassSet
<1> DEFINE c == aliasclass[n1]
           d == aliasclass[n2]
<1>1. n1 # n2
  BY DEF United
<1>2. \A n \in Value : aliasclass'[n] = IF n = n2 THEN d \cup c
                                       ELSE IF n = n1 THEN {} ELSE aliasclass[n]
  BY DEF United, ClassesMerged, TypeOK
<1>3. \A n, m \in Value : n # m => aliasclass[n] \cap aliasclass[m] = {}
  BY DEF TypeOK, Partition
<1>4. ClassSet' = {aliasclass'[n] : n \in Value} \ {{}}
  BY DEF ClassSet
<1>5. ASSUME NEW n \in Value, n # n1, n # n2
      PROVE  aliasclass'[n] = aliasclass[n]
  BY <1>2, <1>5
<1>6. aliasclass'[n1] = {} /\ aliasclass'[n2] = c \cup d
  BY <1>1, <1>2
<1>7. CASE c = {}
  <2>1. \A n \in Value : aliasclass'[n] = aliasclass[n]
    BY <1>5, <1>6, <1>7
  <2> QED BY <1>4, <2>1 DEF ClassSet
<1>8. CASE c # {} /\ d = {}
  <2>1. \A n \in Value : n # n1 /\ n # n2 => aliasclass'[n] = aliasclass[n]
    BY <1>5
  <2>2. aliasclass'[n1] = aliasclass[n2] /\ aliasclass'[n2] = aliasclass[n1]
    BY <1>6, <1>8
  <2>3. ASSUME NEW n \in Value
        PROVE  \E m \in Value : aliasclass'[n] = aliasclass[m]
    BY <2>1, <2>2
  <2>4. ASSUME NEW n \in Value
        PROVE  \E m \in Value : aliasclass[n] = aliasclass'[m]
    BY <2>1, <2>2
  <2> QED BY <1>4, <2>3, <2>4 DEF ClassSet
<1>9. CASE c # {} /\ d # {}
  <2>1. c \in ClassSet /\ d \in ClassSet /\ c # d
    BY <1>1, <1>3, <1>9 DEF ClassSet
  <2>2. ClassSet' = (ClassSet \ {c, d}) \cup {c \cup d}
    <3>1. ASSUME NEW n \in Value, aliasclass'[n] # {}
          PROVE  aliasclass'[n] \in (ClassSet \ {c, d}) \cup {c \cup d}
      <4>1. CASE n = n2
        BY <1>6, <4>1
      <4>2. CASE n # n1 /\ n # n2
        <5>1. aliasclass[n] # c /\ aliasclass[n] # d
          BY <1>3, <1>5, <3>1, <4>2
        <5> QED BY <1>5, <3>1, <4>2, <5>1 DEF ClassSet
      <4> QED BY <1>6, <3>1, <4>1, <4>2
    <3>2. c \cup d \in ClassSet'
      BY <1>4, <1>6, <1>9
    <3>3. ASSUME NEW n \in Value, aliasclass[n] # {}, aliasclass[n] # c, aliasclass[n] # d
          PROVE  aliasclass[n] \in ClassSet'
      <4>1. aliasclass'[n] = aliasclass[n]
        BY <1>5, <3>3
      <4> QED BY <1>4, <3>3, <4>1
    <3> QED BY <1>4, <3>1, <3>2, <3>3 DEF ClassSet
  <2> QED BY <2>1, <2>2 DEF Classes!Unite, ClassSet
<1> QED BY <1>7, <1>8, <1>9

LEMMA ClassStepRefined ==
  ASSUME TypeOK, Partition, ClassesBorn, ClassStep
  PROVE  Classes!Next \/ ClassSet' = ClassSet
<1>1. ASSUME NEW S \in SUBSET Value, CreateNodes(S)
      PROVE  Classes!Enter
  <2>1. ClassSet' = {ClassesWith(S)[n] : n \in Value} \ {{}}
    BY <1>1 DEF CreateNodes, ClassSet
  <2> QED BY <2>1, EnterImage DEF Classes!Enter, ClassSet
<1>2. CASE UNCHANGED <<NodeMap, aliasclass>>
  BY <1>2 DEF ClassSet
<1> QED BY <1>1, <1>2, CopiedJoins, UnitedUnites DEF ClassStep, Entered, Classes!Next

\* The context implements the abstract classes: every handler call and every
\* merge adds values, or unites exactly two classes, and splits none.
THEOREM ClassesRefined == Spec => ClassesOnlyUnite
<1>1. Init => Classes!Init
  <2> SUFFICES ASSUME Init PROVE ClassSet = {}
    BY DEF Classes!Init, ClassSet
  <2> QED BY DEF Init, ClassSet
<1>2. Inv /\ [Next]_vars => [Classes!Next]_ClassSet
  BY InvStep, ClassStepRefined DEF Inv
<1>3. [Classes!Next]_ClassSet <=> [Classes!Next]_({aliasclass[n] : n \in Value} \ {{}})
  BY DEF ClassSet
<1> QED BY <1>1, <1>2, <1>3, Invariance, PTL DEF Spec, ClassesOnlyUnite, Classes!Spec

-----------------------------------------------------------------------------
(* The recursion of mergeNode is bounded.                                  *)
(*                                                                         *)
(* A frame that waits in the To half erased two outgoing edges before it   *)
(* called, and one that waits in the From half two incoming edges. The To  *)
(* frames are the bottom of the stack: what a frame of the From half calls *)
(* is a pair of nodes that lost their outgoing edges, so it passes its own *)
(* To half without a call. The nested merges put edges back while they     *)
(* return, so each half pays for its own frames, out of one edge per node. *)

Size == Cardinality(Value)
EdgeMap == [Value -> Value \cup {NoNode}]
Edges(map) == Cardinality({n \in Value : map[n] # NoNode})

\* The d bottom frames wait in the To half, all others but the top in the From half.
Chain(d) ==
  /\ \A j \in 1..d : stack[j].at = "toReturn"
  /\ \A j \in (d + 1)..(Len(stack) - 1) : stack[j].at = "fromReturn"

FromFrames(d) == (Len(stack) - d - 1) + (IF top.at = "fromReturn" THEN 1 ELSE 0)

\* What is left to erase when the top frame does not wait in the To half.
Budget(d) ==
  /\ top.at # "toReturn"
  /\ Edges(FromNodeMap) + 2 * FromFrames(d) <= Size
  /\ d >= 1 => 2 * d + Edges(FromNodeMap) + 2 * FromFrames(d) <= 2 * Size - 1
  /\ top.at \in {"enter", "to"} /\ d = Len(stack) - 1 =>
       /\ Edges(ToNodeMap) + 2 * d <= Size
       /\ d >= 1 => Edges(FromNodeMap) <= Size - 2
  /\ top.at \in {"enter", "to"} /\ d # Len(stack) - 1 =>
       ToNodeMap[top.n1] = NoNode /\ ToNodeMap[top.n2] = NoNode

DepthAt(d) ==
  /\ Chain(d)
  /\ 2 * d <= Size
  /\ d < Len(stack) => Budget(d)

DepthOK == \E d \in 0..Len(stack) : DepthAt(d)

LEMMA EdgesType ==
  ASSUME IsFiniteSet(Value), NEW map
  PROVE  /\ Size \in Nat
         /\ Edges(map) \in Nat
         /\ Edges(map) <= Size
         /\ IsFiniteSet({n \in Value : map[n] # NoNode})
<1> DEFINE E == {n \in Value : map[n] # NoNode}
<1>1. E \in SUBSET Value
  OBVIOUS
<1>2. IsFiniteSet(E) /\ Cardinality(E) <= Cardinality(Value)
  BY <1>1, FS_Subset
<1>3. Cardinality(E) \in Nat /\ Cardinality(Value) \in Nat
  BY <1>2, FS_CardinalityType
<1> QED BY <1>2, <1>3 DEF Size, Edges

\* One assignment adds one edge at most.
LEMMA EdgeAdded ==
  ASSUME IsFiniteSet(Value), NEW map \in EdgeMap, NEW n \in Value, NEW m
  PROVE  Edges([map EXCEPT ![n] = m]) <= Edges(map) + 1
<1> DEFINE E == {v \in Value : map[v] # NoNode}
           D == {v \in Value : [map EXCEPT ![n] = m][v] # NoNode}
<1>1. D \in SUBSET (E \cup {n})
  BY DEF EdgeMap
<1>2. IsFiniteSet(E) /\ Cardinality(E) \in Nat
  BY EdgesType DEF Edges
<1>3. Edges([map EXCEPT ![n] = m]) = Cardinality(D) /\ Edges(map) = Cardinality(E)
  BY DEF Edges
<1>4. Cardinality(D) \in Nat
  BY <1>3, EdgesType
<1> HIDE DEF D, E
<1>5. /\ IsFiniteSet(E \cup {n})
      /\ Cardinality(E \cup {n}) = Cardinality(E) \/ Cardinality(E \cup {n}) = Cardinality(E) + 1
  BY <1>2, FS_AddElement
<1>6. Cardinality(D) <= Cardinality(E \cup {n})
  BY <1>1, <1>5, FS_Subset
<1> QED BY <1>2, <1>3, <1>4, <1>5, <1>6

\* Two erased edges are gone, and both nodes are without one.
LEMMA EdgesErased ==
  ASSUME IsFiniteSet(Value), NEW map \in EdgeMap, NEW n \in Value, NEW m \in Value, n # m
  PROVE  /\ Edges(Erased(map, n, m)) <= Size - 2
         /\ map[n] # NoNode /\ map[m] # NoNode => Edges(Erased(map, n, m)) + 2 = Edges(map)
         /\ Erased(map, n, m)[n] = NoNode /\ Erased(map, n, m)[m] = NoNode
<1> DEFINE E == {v \in Value : map[v] # NoNode}
           D == {v \in Value : Erased(map, n, m)[v] # NoNode}
           R == (Value \ {n}) \ {m}
<1>1. Erased(map, n, m)[n] = NoNode /\ Erased(map, n, m)[m] = NoNode
  BY DEF Erased, EdgeMap
<1>2. D = (E \ {n}) \ {m}
  BY DEF Erased, EdgeMap
<1>3. IsFiniteSet(Value \ {n}) /\ Cardinality(Value \ {n}) = Size - 1
  BY FS_RemoveElement DEF Size
<1>4. IsFiniteSet(R) /\ Cardinality(R) = Size - 1 - 1
  BY <1>3, FS_RemoveElement
<1>5. D \in SUBSET R
  BY <1>2
<1>6. Cardinality(D) <= Cardinality(R)
  BY <1>4, <1>5, FS_Subset
<1>7. IsFiniteSet(E) /\ Cardinality(E) \in Nat
  BY EdgesType DEF Edges
<1>8. ASSUME map[n] # NoNode, map[m] # NoNode
      PROVE  Cardinality(D) + 2 = Cardinality(E)
  <2>1. n \in E /\ m \in E \ {n}
    BY <1>8
  <2> HIDE DEF E
  <2>2. IsFiniteSet(E \ {n}) /\ Cardinality(E \ {n}) = Cardinality(E) - 1
    BY <1>7, <2>1, FS_RemoveElement
  <2>3. Cardinality((E \ {n}) \ {m}) = Cardinality(E \ {n}) - 1
    BY <2>1, <2>2, FS_RemoveElement
  <2> QED BY <1>2, <1>7, <2>2, <2>3
<1>9. Size \in Nat
  BY EdgesType
<1>10. Edges(Erased(map, n, m)) = Cardinality(D) /\ Edges(map) = Cardinality(E)
  BY DEF Edges
<1> HIDE DEF D, E, R
<1> QED BY <1>1, <1>4, <1>6, <1>8, <1>9, <1>10

\* A moved edge is the same edge.
LEMMA EdgeMoved ==
  ASSUME IsFiniteSet(Value), NEW map \in EdgeMap, NEW n1 \in Value, NEW n2 \in Value,
         map[n1] # NoNode, map[n2] = NoNode
  PROVE  Edges(MovedEdge(map, n1, n2)) = Edges(map)
<1> DEFINE E == {v \in Value : map[v] # NoNode}
           D == {v \in Value : MovedEdge(map, n1, n2)[v] # NoNode}
<1>1. D = (E \ {n1}) \cup {n2}
  BY DEF MovedEdge, EdgeMap
<1>2. n1 \in E /\ n2 \notin E \ {n1}
  OBVIOUS
<1>3. IsFiniteSet(E) /\ Cardinality(E) \in Nat
  BY EdgesType DEF Edges
<1>4. Edges(MovedEdge(map, n1, n2)) = Cardinality(D) /\ Edges(map) = Cardinality(E)
  BY DEF Edges
<1> HIDE DEF D, E
<1>5. IsFiniteSet(E \ {n1}) /\ Cardinality(E \ {n1}) = Cardinality(E) - 1
  BY <1>2, <1>3, FS_RemoveElement
<1>6. Cardinality((E \ {n1}) \cup {n2}) = Cardinality(E \ {n1}) + 1
  BY <1>2, <1>5, FS_AddElement
<1> QED BY <1>1, <1>3, <1>4, <1>5, <1>6

\* A frame that returns leaves a chain, with the frame below it on top.
LEMMA PopDepth ==
  ASSUME stack \in Seq(Frame), stack # <<>>, Pop, NEW d \in 0..Len(stack), d < Len(stack),
         DepthAt(d),
         Edges(FromNodeMap') + 2 * (Len(stack) - d - 1) <= Size,
         d >= 1 => 2 * d + Edges(FromNodeMap') + 2 * (Len(stack) - d - 1) <= 2 * Size - 1
  PROVE  DepthOK'
<1>1. /\ stack' \in Seq(Frame)
      /\ Len(stack') = Len(stack) - 1
      /\ \A j \in 1..Len(stack') : stack'[j] = stack[j]
  BY PopType
<1>2. Len(stack) \in Nat \ {0}
  BY TopType
<1>3. d \in 0..Len(stack')
  BY <1>1, <1>2
<1>4. Chain(d)'
  <2>1. Chain(d)
    BY DEF DepthAt
  <2>2. \A j \in 1..d : j \in 1..Len(stack')
    BY <1>1, <1>2, <1>3
  <2>3. \A j \in (d + 1)..(Len(stack') - 1) :
           j \in 1..Len(stack') /\ j \in (d + 1)..(Len(stack) - 1)
    BY <1>1, <1>2, <1>3
  <2> QED BY <1>1, <2>1, <2>2, <2>3 DEF Chain
<1>5. ASSUME d < Len(stack')
      PROVE  Budget(d)'
  <2>1. Len(stack') \in (d + 1)..(Len(stack) - 1)
    BY <1>1, <1>2, <1>5
  <2>2. top' = stack[Len(stack')]
    BY <1>1, <2>1 DEF top
  <2>3. top'.at = "fromReturn"
    BY <2>1, <2>2 DEF Chain, DepthAt
  <2>4. FromFrames(d)' = Len(stack) - d - 1
    BY <1>1, <1>2, <2>3 DEF FromFrames
  <2> QED BY <2>3, <2>4 DEF Budget
<1>6. DepthAt(d)'
  BY <1>4, <1>5 DEF DepthAt, Size
<1> QED BY <1>3, <1>6 DEF DepthOK

LEMMA GoOnAt ==
  ASSUME stack \in Seq(Frame), stack # <<>>, NEW at \in Phase, GoOn(at)
  PROVE  /\ Len(stack') = Len(stack)
         /\ \A j \in 1..(Len(stack) - 1) : stack'[j] = stack[j]
         /\ top'.at = at /\ top'.n1 = top.n1 /\ top'.n2 = top.n2
<1>1. top \in Frame /\ Len(stack) \in DOMAIN stack /\ Len(stack) \in Nat \ {0}
  BY TopType
<1>2. Len(stack') = Len(stack)
  BY GoOnType
<1>3. stack' = [stack EXCEPT ![Len(stack)] = [top EXCEPT !.at = at]]
  BY DEF GoOn, top
<1>4. stack'[Len(stack)] = [top EXCEPT !.at = at]
  BY <1>1, <1>3
<1>5. \A j \in 1..(Len(stack) - 1) : stack'[j] = stack[j]
  BY <1>1, <1>3
<1>6. top' = [top EXCEPT !.at = at]
  BY <1>2, <1>4 DEF top
<1>7. /\ [top EXCEPT !.at = at].at = at
      /\ [top EXCEPT !.at = at].n1 = top.n1
      /\ [top EXCEPT !.at = at].n2 = top.n2
  BY <1>1 DEF Frame
<1> QED BY <1>2, <1>5, <1>6, <1>7

\* The running frame goes on to its From half.
LEMMA FromDepth ==
  ASSUME stack \in Seq(Frame), stack # <<>>, GoOn("from"),
         NEW d \in 0..(Len(stack) - 1), Chain(d), 2 * d <= Size,
         Edges(FromNodeMap') + 2 * (Len(stack) - d - 1) <= Size,
         d >= 1 => 2 * d + Edges(FromNodeMap') + 2 * (Len(stack) - d - 1) <= 2 * Size - 1
  PROVE  DepthOK'
<1>1. Len(stack) \in Nat \ {0}
  BY TopType
<1>2. /\ Len(stack') = Len(stack)
      /\ \A j \in 1..(Len(stack) - 1) : stack'[j] = stack[j]
      /\ top'.at = "from"
  BY GoOnAt DEF Phase
<1>3. Chain(d)'
  BY <1>1, <1>2 DEF Chain
<1>4. FromFrames(d)' = Len(stack) - d - 1
  BY <1>1, <1>2 DEF FromFrames
<1>5. Budget(d)'
  BY <1>2, <1>4 DEF Budget
<1>6. DepthAt(d)'
  BY <1>3, <1>5 DEF DepthAt, Size
<1>7. d \in 0..Len(stack')
  BY <1>1, <1>2
<1> QED BY <1>6, <1>7 DEF DepthOK

\* A handler starts one merge at most.
LEMMA HandlerDepth ==
  ASSUME IsFiniteSet(Value), TypeOK, TypeOK', NEW i \in Calls, HandleInst(i)
  PROVE  DepthOK'
<1>1. stack = <<>>
  BY DEF HandleInst, HandleAlloc, HandleLoad, HandleStoreInst, HandleStore, HandleMove,
         HandleReturnInst, HandleCai, Handle
<1>2. stack' = stack \/ \E n1, n2 : mergeNode(n1, n2)
  <2>1. \A n1, n2 : PointTo(n1, n2) => stack' = stack \/ \E m1, m2 : mergeNode(m1, m2)
    BY DEF PointTo
  <2>2. \A v1, v2 : StoreInto(v1, v2) => stack' = stack \/ \E n1, n2 : mergeNode(n1, n2)
    BY <2>1 DEF StoreInto
  <2>3. \A v1, v2, S : Move(v1, v2, S) => stack' = stack \/ \E n1, n2 : mergeNode(n1, n2)
    BY DEF Move
  <2> QED BY <2>1, <2>2, <2>3
          DEF HandleInst, HandleAlloc, HandleLoad, HandleStoreInst, HandleStore, HandleMove,
              HandleReturnInst, HandleCai, SkipStore
<1>3. /\ Size \in Nat
      /\ Edges(ToNodeMap') \in Nat /\ Edges(ToNodeMap') <= Size
      /\ Edges(FromNodeMap') \in Nat /\ Edges(FromNodeMap') <= Size
  BY EdgesType
<1>4. CASE stack' = <<>>
  <2>1. Len(stack') = 0
    BY <1>4
  <2>2. DepthAt(0)'
    BY <1>3, <2>1 DEF DepthAt, Chain, Size
  <2> QED BY <2>1, <2>2 DEF DepthOK
<1>5. ASSUME NEW n1, NEW n2, mergeNode(n1, n2)
      PROVE  DepthOK'
  <2>1. stack' = <<Activation(n1, n2, "enter", NoNode, NoNode)>>
    BY <1>1, <1>5 DEF mergeNode
  <2>2. Len(stack') = 1 /\ top'.at = "enter"
    BY <2>1 DEF top, Activation
  <2>3. FromFrames(0)' = 0
    BY <2>2 DEF FromFrames
  <2>4. Budget(0)'
    BY <1>3, <2>2, <2>3 DEF Budget
  <2>5. DepthAt(0)'
    BY <1>3, <2>2, <2>4 DEF DepthAt, Chain, Size
  <2> QED BY <2>2, <2>5 DEF DepthOK
<1> QED BY <1>1, <1>2, <1>4, <1>5

\* The frame's pair of nodes both have a neighbour, and the frame waits for them.
LEMMA RecurseDepth ==
  ASSUME stack \in Seq(Frame), stack # <<>>, NEW at \in Phase,
         NEW m1 \in Value, NEW m2 \in Value, Recurse(at, m1, m2)
  PROVE  /\ Len(stack') = Len(stack) + 1
         /\ \A j \in 1..(Len(stack) - 1) : stack'[j] = stack[j]
         /\ stack'[Len(stack)].at = at
         /\ top'.at = "enter" /\ top'.n1 = m1 /\ top'.n2 = m2
<1>1. /\ Len(stack') = Len(stack) + 1
      /\ \A j \in 1..(Len(stack) - 1) : stack'[j] = stack[j]
      /\ stack'[Len(stack)] = Activation(top.n1, top.n2, at, m1, m2)
      /\ stack'[Len(stack) + 1] = Activation(m1, m2, "enter", NoNode, NoNode)
  BY RecurseType
<1>2. top' = stack'[Len(stack) + 1]
  BY <1>1 DEF top
<1> QED BY <1>1, <1>2 DEF Activation

LEMMA ToDepth ==
  ASSUME IsFiniteSet(Value), TypeOK, TypeOK', MergeTo, NEW d \in 0..Len(stack), DepthAt(d)
  PROVE  DepthOK'
<1> DEFINE n1 == top.n1
           n2 == top.n2
           m1 == ToNodeMap[n1]
           m2 == ToNodeMap[n2]
           F == Edges(FromNodeMap)
           T == Edges(ToNodeMap)
           rest == Len(stack) - d - 1
<1>1. stack \in Seq(Frame) /\ stack # <<>> /\ top.at = "to"
  BY DEF MergeTo, Running, TypeOK
<1>2. /\ Len(stack) \in Nat \ {0} /\ top \in Frame
      /\ n1 \in Value /\ n2 \in Value
  BY <1>1, TopType DEF Frame
<1>3. ToNodeMap \in EdgeMap /\ FromNodeMap \in EdgeMap
  BY DEF TypeOK, EdgeMap
<1>4. Size \in Nat /\ F \in Nat /\ F <= Size /\ T \in Nat /\ T <= Size
  BY EdgesType
<1>5. Edges(FromNodeMap') \in Nat /\ Edges(FromNodeMap') <= Size /\ Edges(ToNodeMap') \in Nat
  BY EdgesType
<1>6. d < Len(stack)
  <2>1. ASSUME d = Len(stack) PROVE FALSE
    BY <1>1, <1>2, <2>1 DEF DepthAt, Chain, top
  <2> QED BY <1>2, <2>1
<1>7. Chain(d) /\ 2 * d <= Size /\ Budget(d)
  BY <1>6 DEF DepthAt
<1>8. FromFrames(d) = rest /\ rest \in Nat
  BY <1>1, <1>2, <1>6 DEF FromFrames
<1>9. /\ F + 2 * rest <= Size
      /\ d >= 1 => 2 * d + F + 2 * rest <= 2 * Size - 1
      /\ d = Len(stack) - 1 => T + 2 * d <= Size /\ (d >= 1 => F <= Size - 2)
      /\ d # Len(stack) - 1 => m1 = NoNode /\ m2 = NoNode
  BY <1>1, <1>7, <1>8 DEF Budget
<1>10. d \in 0..(Len(stack) - 1)
  BY <1>2, <1>6
<1>11. m1 \in Value \cup {NoNode} /\ m2 \in Value \cup {NoNode}
  BY <1>2 DEF TypeOK
<1>12. \/ UNCHANGED FromNodeMap /\ GoOn("from")
       \/ m1 # NoNode /\ FromNodeMap' = [FromNodeMap EXCEPT ![m1] = n2] /\ GoOn("from")
       \/ /\ m1 # NoNode /\ m2 # NoNode /\ m1 # m2
          /\ ToNodeMap' = Erased(ToNodeMap, n1, n2)
          /\ FromNodeMap' = Erased(FromNodeMap, m1, m2)
          /\ Recurse("toReturn", m1, m2)
  BY DEF MergeTo
<1> HIDE DEF n1, n2
<1>13. CASE UNCHANGED FromNodeMap /\ GoOn("from")
  <2>1. Edges(FromNodeMap') = F
    BY <1>13
  <2> QED BY <1>1, <1>7, <1>9, <1>10, <1>13, <2>1, FromDepth
<1>14. CASE m1 # NoNode /\ FromNodeMap' = [FromNodeMap EXCEPT ![m1] = n2] /\ GoOn("from")
  <2>1. m1 \in Value
    BY <1>11, <1>14
  <2> HIDE DEF m1
  <2>2. Edges(FromNodeMap') <= F + 1
    BY <1>2, <1>3, <1>14, <2>1, EdgeAdded
  <2>3. d = Len(stack) - 1 /\ rest = 0
    BY <1>2, <1>9, <1>14
  <2>4. Edges(FromNodeMap') + 2 * rest <= Size
    BY <1>5, <2>3
  <2>5. d >= 1 => 2 * d + Edges(FromNodeMap') + 2 * rest <= 2 * Size - 1
    BY <1>4, <1>5, <1>7, <1>9, <2>2, <2>3
  <2> QED BY <1>1, <1>7, <1>10, <1>14, <2>4, <2>5, FromDepth
<1>15. CASE /\ m1 # NoNode /\ m2 # NoNode /\ m1 # m2
            /\ ToNodeMap' = Erased(ToNodeMap, n1, n2)
            /\ FromNodeMap' = Erased(FromNodeMap, m1, m2)
            /\ Recurse("toReturn", m1, m2)
  <2>1. m1 \in Value /\ m2 \in Value /\ n1 # n2 /\ m1 # m2
    BY <1>11, <1>15
  <2>2. d = Len(stack) - 1
    BY <1>9, <1>15
  <2>3. Edges(ToNodeMap') + 2 = T
    BY <1>2, <1>3, <1>15, <2>1, EdgesErased
  <2> HIDE DEF m1, m2
  <2>4. Edges(FromNodeMap') <= Size - 2
    BY <1>3, <1>15, <2>1, EdgesErased
  <2>5. /\ Len(stack') = Len(stack) + 1
        /\ \A j \in 1..(Len(stack) - 1) : stack'[j] = stack[j]
        /\ stack'[Len(stack)].at = "toReturn"
        /\ top'.at = "enter"
    BY <1>1, <1>15, <2>1, RecurseDepth DEF Phase
  <2> DEFINE e == d + 1
  <2>6. e \in 0..Len(stack') /\ e = Len(stack') - 1 /\ e \in Nat /\ e = Len(stack)
    BY <1>2, <2>2, <2>5
  <2>7. Chain(e)'
    <3>1. \A j \in 1..d : stack'[j].at = "toReturn"
      BY <1>7, <2>2, <2>5 DEF Chain
    <3>2. \A j \in 1..e : j \in 1..d \/ j = Len(stack)
      BY <2>6
    <3>3. \A j \in 1..e : stack'[j].at = "toReturn"
      BY <2>5, <3>1, <3>2
    <3>4. (e + 1)..(Len(stack') - 1) = {}
      BY <2>6
    <3> HIDE DEF e
    <3> QED BY <3>3, <3>4 DEF Chain
  <2>8. Edges(ToNodeMap') + 2 * e <= Size
    BY <1>4, <1>5, <1>9, <2>2, <2>3, <2>6
  <2> HIDE DEF e
  <2>9. FromFrames(e)' = 0
    BY <2>5, <2>6 DEF FromFrames
  <2>10. Budget(e)'
    BY <1>4, <1>5, <2>4, <2>5, <2>6, <2>8, <2>9 DEF Budget
  <2>11. 2 * e <= Size
    BY <1>4, <1>5, <2>6, <2>8
  <2>12. DepthAt(e)'
    BY <2>7, <2>10, <2>11 DEF DepthAt, Size
  <2> QED BY <2>6, <2>12 DEF DepthOK
<1> QED BY <1>12, <1>13, <1>14, <1>15

LEMMA FromHalfDepth ==
  ASSUME IsFiniteSet(Value), TypeOK, TypeOK', MergeFrom, NEW d \in 0..Len(stack), DepthAt(d)
  PROVE  DepthOK'
<1> DEFINE n1 == top.n1
           n2 == top.n2
           m1 == FromNodeMap[n1]
           m2 == FromNodeMap[n2]
           F == Edges(FromNodeMap)
           rest == Len(stack) - d - 1
<1>1. stack \in Seq(Frame) /\ stack # <<>> /\ top.at = "from"
  BY DEF MergeFrom, Running, TypeOK
<1>2. /\ Len(stack) \in Nat \ {0} /\ top \in Frame
      /\ n1 \in Value /\ n2 \in Value
  BY <1>1, TopType DEF Frame
<1>3. ToNodeMap \in EdgeMap /\ FromNodeMap \in EdgeMap
  BY DEF TypeOK, EdgeMap
<1>4. Size \in Nat /\ F \in Nat
  BY EdgesType
<1>5. Edges(FromNodeMap') \in Nat
  BY EdgesType
<1>6. d < Len(stack)
  <2>1. ASSUME d = Len(stack) PROVE FALSE
    BY <1>1, <1>2, <2>1 DEF DepthAt, Chain, top
  <2> QED BY <1>2, <2>1
<1>7. Chain(d) /\ 2 * d <= Size /\ Budget(d)
  BY <1>6 DEF DepthAt
<1>8. FromFrames(d) = rest /\ rest \in Nat
  BY <1>1, <1>2, <1>6 DEF FromFrames
<1>9. /\ F + 2 * rest <= Size
      /\ d >= 1 => 2 * d + F + 2 * rest <= 2 * Size - 1
  BY <1>7, <1>8 DEF Budget
<1>10. m1 \in Value \cup {NoNode} /\ m2 \in Value \cup {NoNode}
  BY <1>2 DEF TypeOK
<1>11. \/ UNCHANGED FromNodeMap /\ Pop
       \/ m1 # NoNode /\ m2 = NoNode /\ FromNodeMap' = MovedEdge(FromNodeMap, n1, n2) /\ Pop
       \/ /\ m1 # NoNode /\ m2 # NoNode /\ m1 # m2
          /\ FromNodeMap' = Erased(FromNodeMap, n1, n2)
          /\ ToNodeMap' = Erased(ToNodeMap, m1, m2)
          /\ Recurse("fromReturn", m1, m2)
  BY DEF MergeFrom
<1> HIDE DEF n1, n2
<1>12. CASE UNCHANGED FromNodeMap /\ Pop
  <2>1. Edges(FromNodeMap') = F
    BY <1>12
  <2> QED BY <1>1, <1>6, <1>9, <1>12, <2>1, PopDepth
<1>13. CASE m1 # NoNode /\ m2 = NoNode /\ FromNodeMap' = MovedEdge(FromNodeMap, n1, n2) /\ Pop
  <2>1. Edges(FromNodeMap') = F
    BY <1>2, <1>3, <1>13, EdgeMoved
  <2> QED BY <1>1, <1>6, <1>9, <1>13, <2>1, PopDepth
<1>14. CASE /\ m1 # NoNode /\ m2 # NoNode /\ m1 # m2
            /\ FromNodeMap' = Erased(FromNodeMap, n1, n2)
            /\ ToNodeMap' = Erased(ToNodeMap, m1, m2)
            /\ Recurse("fromReturn", m1, m2)
  <2>1. m1 \in Value /\ m2 \in Value /\ n1 # n2 /\ m1 # m2
    BY <1>10, <1>14
  <2>2. Edges(FromNodeMap') + 2 = F
    BY <1>2, <1>3, <1>14, <2>1, EdgesErased
  <2> HIDE DEF m1, m2
  <2>3. ToNodeMap'[m1] = NoNode /\ ToNodeMap'[m2] = NoNode
    BY <1>3, <1>14, <2>1, EdgesErased
  <2>4. /\ Len(stack') = Len(stack) + 1
        /\ \A j \in 1..(Len(stack) - 1) : stack'[j] = stack[j]
        /\ stack'[Len(stack)].at = "fromReturn"
        /\ top'.at = "enter" /\ top'.n1 = m1 /\ top'.n2 = m2
    BY <1>1, <1>14, <2>1, RecurseDepth DEF Phase
  <2>5. Chain(d)'
    <3>1. \A j \in 1..d : stack'[j].at = "toReturn"
      <4>1. \A j \in 1..d : j \in 1..(Len(stack) - 1)
        BY <1>2, <1>6
      <4> QED BY <1>7, <2>4, <4>1 DEF Chain
    <3>2. ASSUME NEW j \in (d + 1)..(Len(stack') - 1)
          PROVE  stack'[j].at = "fromReturn"
      <4>1. CASE j = Len(stack)
        BY <2>4, <4>1
      <4>2. CASE j # Len(stack)
        <5>1. j \in (d + 1)..(Len(stack) - 1) /\ j \in 1..(Len(stack) - 1)
          BY <1>2, <2>4, <4>2
        <5> QED BY <1>7, <2>4, <5>1 DEF Chain
      <4> QED BY <4>1, <4>2
    <3> QED BY <3>1, <3>2 DEF Chain
  <2>6. FromFrames(d)' = rest + 1
    BY <1>2, <2>4 DEF FromFrames
  <2>7. d # Len(stack') - 1
    BY <1>2, <1>6, <2>4
  <2>8. /\ Edges(FromNodeMap') + 2 * (rest + 1) <= Size
        /\ d >= 1 => 2 * d + Edges(FromNodeMap') + 2 * (rest + 1) <= 2 * Size - 1
    BY <1>4, <1>5, <1>8, <1>9, <2>2
  <2>9. Budget(d)'
    BY <2>3, <2>4, <2>6, <2>7, <2>8 DEF Budget
  <2>10. DepthAt(d)'
    BY <1>7, <2>5, <2>9 DEF DepthAt, Size
  <2>11. d \in 0..Len(stack')
    BY <1>2, <2>4
  <2> QED BY <2>10, <2>11 DEF DepthOK
<1> QED BY <1>11, <1>12, <1>13, <1>14

LEMMA MergeDepth ==
  ASSUME IsFiniteSet(Value), TypeOK, TypeOK', DepthOK, Merge
  PROVE  DepthOK'
<1>1. PICK d \in 0..Len(stack) : DepthAt(d)
  BY DEF DepthOK
<1>2. stack \in Seq(Frame) /\ stack # <<>>
  BY DEF Merge, MergeBlocked, MergeSelf, MergeValues, MergeTo, MergeToReturn, MergeFrom,
         MergeFromReturn, Running, TypeOK
<1>3. /\ Len(stack) \in Nat \ {0}
      /\ top.n1 \in Value /\ top.n2 \in Value
      /\ top.m1 \in Value \cup {NoNode} /\ top.m2 \in Value \cup {NoNode}
  BY <1>2, TopType DEF Frame
<1>4. FromNodeMap \in EdgeMap
  BY DEF TypeOK, EdgeMap
<1>5. /\ Size \in Nat /\ Edges(FromNodeMap) \in Nat
      /\ Edges(FromNodeMap') \in Nat /\ Edges(FromNodeMap') <= Size
  BY EdgesType
<1>6. d < Len(stack) <=> top.at # "toReturn"
  <2>1. ASSUME d = Len(stack) PROVE top.at = "toReturn"
    BY <1>1, <1>3, <2>1 DEF DepthAt, Chain, top
  <2>2. ASSUME d < Len(stack) PROVE top.at # "toReturn"
    BY <1>1, <2>2 DEF DepthAt, Budget
  <2> QED BY <1>3, <2>1, <2>2
<1>7. Chain(d) /\ 2 * d <= Size /\ (d < Len(stack) => Budget(d))
  BY <1>1 DEF DepthAt
<1>8. CASE MergeBlocked \/ MergeSelf
  <2>1. top.at = "enter" /\ UNCHANGED FromNodeMap /\ Pop
    BY <1>8 DEF MergeBlocked, MergeSelf, Running, graph
  <2>2. d < Len(stack) /\ FromFrames(d) = Len(stack) - d - 1
    BY <1>3, <1>6, <2>1 DEF FromFrames
  <2>3. Edges(FromNodeMap') = Edges(FromNodeMap)
    BY <2>1
  <2>4. /\ Edges(FromNodeMap') + 2 * (Len(stack) - d - 1) <= Size
        /\ d >= 1 => 2 * d + Edges(FromNodeMap') + 2 * (Len(stack) - d - 1) <= 2 * Size - 1
    BY <1>7, <2>2, <2>3 DEF Budget
  <2> QED BY <1>1, <1>2, <2>1, <2>2, <2>4, PopDepth
<1>9. CASE MergeValues
  <2>1. top.at = "enter" /\ UNCHANGED <<ToNodeMap, FromNodeMap>> /\ GoOn("to")
    BY <1>9 DEF MergeValues, Running
  <2>2. /\ Len(stack') = Len(stack)
        /\ \A j \in 1..(Len(stack) - 1) : stack'[j] = stack[j]
        /\ top'.at = "to" /\ top'.n1 = top.n1 /\ top'.n2 = top.n2
    BY <1>2, <2>1, GoOnAt DEF Phase
  <2>3. d < Len(stack) /\ Budget(d)
    BY <1>6, <1>7, <2>1
  <2>4. Chain(d)'
    BY <1>3, <1>7, <2>2, <2>3 DEF Chain
  <2>5. FromFrames(d)' = FromFrames(d)
    BY <2>1, <2>2 DEF FromFrames
  <2>6. Budget(d)'
    BY <2>1, <2>2, <2>3, <2>5 DEF Budget
  <2>7. DepthAt(d)'
    BY <1>7, <2>4, <2>6 DEF DepthAt, Size
  <2> QED BY <2>2, <2>7 DEF DepthOK
<1>10. CASE MergeTo
  BY <1>1, <1>10, ToDepth
<1>11. CASE MergeToReturn
  <2>1. top.at = "toReturn" /\ GoOn("from")
    BY <1>11 DEF MergeToReturn, Running
  <2> DEFINE e == d - 1
  <2>2. d = Len(stack) /\ e \in 0..(Len(stack) - 1) /\ d = e + 1 /\ e = Len(stack) - 1
    BY <1>3, <1>6, <2>1
  <2>3. Chain(e)
    BY <1>3, <1>7, <2>2 DEF Chain
  <2>4. /\ 2 * e <= Size
        /\ Edges(FromNodeMap') + 2 * (Len(stack) - e - 1) <= Size
        /\ e >= 1 => 2 * e + Edges(FromNodeMap') + 2 * (Len(stack) - e - 1) <= 2 * Size - 1
    BY <1>3, <1>5, <1>7, <2>2
  <2> HIDE DEF e
  <2> QED BY <1>2, <2>1, <2>2, <2>3, <2>4, FromDepth
<1>12. CASE MergeFrom
  BY <1>1, <1>12, FromHalfDepth
<1>13. CASE MergeFromReturn
  <2>1. top.at = "fromReturn" /\ AddEdge(top.m2, top.n2) /\ Pop
    BY <1>13 DEF MergeFromReturn, Running
  <2>2. d < Len(stack) /\ Budget(d) /\ FromFrames(d) = Len(stack) - d
    BY <1>3, <1>6, <1>7, <2>1 DEF FromFrames
  <2>3. Edges(FromNodeMap') <= Edges(FromNodeMap) + 1
    <3>1. FromNodeMap' = [FromNodeMap EXCEPT ![top.n2] = top.m2]
      BY <2>1 DEF AddEdge
    <3> QED BY <1>3, <1>4, <3>1, EdgeAdded
  <2>4. /\ Edges(FromNodeMap') + 2 * (Len(stack) - d - 1) <= Size
        /\ d >= 1 => 2 * d + Edges(FromNodeMap') + 2 * (Len(stack) - d - 1) <= 2 * Size - 1
    BY <1>3, <1>5, <2>2, <2>3 DEF Budget
  <2> QED BY <1>1, <1>2, <2>1, <2>2, <2>4, PopDepth
<1> QED BY <1>8, <1>9, <1>10, <1>11, <1>12, <1>13 DEF Merge

LEMMA DepthStep ==
  ASSUME IsFiniteSet(Value)
  PROVE  TypeOK /\ TypeOK' /\ DepthOK /\ [Next]_vars => DepthOK'
<1> SUFFICES ASSUME TypeOK, TypeOK', DepthOK, [Next]_vars
             PROVE  DepthOK'
  OBVIOUS
<1>1. CASE UNCHANGED vars
  <2>1. UNCHANGED <<stack, ToNodeMap, FromNodeMap>>
    BY <1>1 DEF vars, graph
  <2> QED BY <2>1 DEF DepthOK, DepthAt, Chain, Budget, FromFrames, Size, Edges, top
<1> QED BY <1>1, MergeDepth, HandlerDepth DEF Next

LEMMA DepthInit ==
  ASSUME IsFiniteSet(Value)
  PROVE  Init => DepthOK
<1> SUFFICES ASSUME Init PROVE DepthOK
  OBVIOUS
<1>1. Len(stack) = 0
  BY DEF Init
<1>2. Size \in Nat
  BY EdgesType
<1>3. DepthAt(0)
  BY <1>1, <1>2 DEF DepthAt, Chain
<1> QED BY <1>1, <1>3 DEF DepthOK

LEMMA DepthBounds ==
  ASSUME IsFiniteSet(Value)
  PROVE  TypeOK /\ DepthOK => RecursionBounded
<1> SUFFICES ASSUME TypeOK, DepthOK PROVE Len(stack) <= Size
  BY DEF RecursionBounded, Size
<1>1. PICK d \in 0..Len(stack) : DepthAt(d)
  BY DEF DepthOK
<1>2. Size \in Nat /\ Edges(FromNodeMap) \in Nat
  BY EdgesType
<1>3. Len(stack) \in Nat /\ stack \in Seq(Frame)
  BY DEF TypeOK
<1>4. 2 * d <= Size
  BY <1>1 DEF DepthAt
<1>5. CASE d = Len(stack)
  BY <1>2, <1>3, <1>4, <1>5
<1>6. CASE d < Len(stack)
  <2>1. Budget(d)
    BY <1>1, <1>6 DEF DepthAt
  <2>2. stack # <<>>
    BY <1>3, <1>6
  <2>3. top.n1 \in Value
    BY <1>3, <2>2, TopType DEF Frame
  <2>4. Size >= 1
    <3>1. Size # 0
      BY <2>3, FS_EmptySet DEF Size
    <3> QED BY <1>2, <3>1
  <2> DEFINE rest == Len(stack) - d - 1
  <2>5. rest \in Nat /\ Len(stack) = d + rest + 1
    BY <1>3, <1>6
  <2>6. FromFrames(d) \in Nat /\ FromFrames(d) >= rest
    BY <2>5 DEF FromFrames
  <2>7. /\ Edges(FromNodeMap) + 2 * FromFrames(d) <= Size
        /\ d >= 1 => 2 * d + Edges(FromNodeMap) + 2 * FromFrames(d) <= 2 * Size - 1
    BY <2>1 DEF Budget
  <2> HIDE DEF rest
  <2>8. /\ 2 * rest <= Size
        /\ d >= 1 => 2 * d + 2 * rest <= 2 * Size - 1
    BY <1>1, <1>2, <1>3, <2>5, <2>6, <2>7
  <2> QED BY <1>1, <1>2, <1>3, <2>4, <2>5, <2>8
<1> QED BY <1>3, <1>5, <1>6

\* In every program with finitely many values, mergeNode never has more
\* activations on the stack than there are values, whatever the alias graph is
\* and whichever merges TBAA blocks: the recursion ends on cyclic graphs too.
THEOREM RecursionAlwaysBounded ==
  ASSUME IsFiniteSet(Value)
  PROVE  Spec => []RecursionBounded
<1>1. TypeOK /\ TypeOK' /\ DepthOK /\ [Next]_vars => DepthOK'
  BY DepthStep
<1>2. Init => DepthOK
  BY DepthInit
<1>3. TypeOK /\ DepthOK => RecursionBounded
  BY DepthBounds
<1> QED BY <1>1, <1>2, <1>3, TypeCorrect, PTL DEF Spec

-----------------------------------------------------------------------------
(***************************************************************************)
(* What the alias graph of a program with pointer levels never loses.      *)
(*                                                                         *)
(* mergeNode erases the edges of two nodes, calls itself on the nodes at   *)
(* their other ends, and puts one edge back when that call returns.  In a  *)
(* program whose values have levels, a pointer one above what it points    *)
(* to, a nested merge is one level further away than the merge that waits  *)
(* for it, so it never uses the places of the edges that are to come back. *)
(* In a program without levels, such as one with a linked list, it does.   *)
(***************************************************************************)

Agree(to, from) == \A n, m \in Value : to[n] = m <=> from[m] = n
Falling(to, lvl) == \A n \in Value : to[n] # NoNode => lvl[n] = lvl[to[n]] + 1
NodesLevelled(lvl) == \A v \in Value : NodeMap[v] # NoNode => lvl[NodeMap[v]] = lvl[v]

-----------------------------------------------------------------------------
(* The three changes of the edge maps, each the same for both directions. *)

LEMMA AgreeBoth == ASSUME NEW to, NEW from, Agree(to, from) PROVE Agree(from, to)
BY DEF Agree

LEMMA MovedAgree ==
  ASSUME NEW to \in EdgeMap, NEW from \in EdgeMap, Agree(to, from),
         NEW n1 \in Value, NEW n2 \in Value, n1 # n2, to[n1] # NoNode, to[n2] = NoNode
  PROVE  Agree(MovedEdge(to, n1, n2), [from EXCEPT ![to[n1]] = n2])
<1> DEFINE m1 == to[n1]
<1>1. m1 \in Value /\ from[m1] = n1
  BY DEF EdgeMap, Agree
<1> SUFFICES ASSUME NEW n \in Value, NEW m \in Value
             PROVE  MovedEdge(to, n1, n2)[n] = m <=> [from EXCEPT ![m1] = n2][m] = n
  BY DEF Agree
<1>2. MovedEdge(to, n1, n2)[n] = IF n = n2 THEN m1 ELSE IF n = n1 THEN NoNode ELSE to[n]
  BY DEF MovedEdge, EdgeMap
<1>3. [from EXCEPT ![m1] = n2][m] = IF m = m1 THEN n2 ELSE from[m]
  BY DEF EdgeMap
<1>4. (to[n] = m <=> from[m] = n) /\ (to[n1] = m <=> from[m] = n1) /\ (to[n2] = m <=> from[m] = n2)
      /\ (to[n] = m1 <=> from[m1] = n)
  BY <1>1 DEF Agree
<1>5. m # NoNode
  BY ValueAssumption
<1> QED BY <1>1, <1>2, <1>3, <1>4, <1>5

LEMMA ErasedAgree ==
  ASSUME NEW to \in EdgeMap, NEW from \in EdgeMap, Agree(to, from),
         NEW n1 \in Value, NEW n2 \in Value, to[n1] # NoNode, to[n2] # NoNode
  PROVE  Agree(Erased(to, n1, n2), Erased(from, to[n1], to[n2]))
<1> DEFINE m1 == to[n1]
           m2 == to[n2]
<1>1. m1 \in Value /\ m2 \in Value
  BY DEF EdgeMap
<1> SUFFICES ASSUME NEW n \in Value, NEW m \in Value
             PROVE  Erased(to, n1, n2)[n] = m <=> Erased(from, m1, m2)[m] = n
  BY DEF Agree
<1>2. Erased(to, n1, n2)[n] = IF n \in {n1, n2} THEN NoNode ELSE to[n]
  BY DEF Erased, EdgeMap
<1>3. Erased(from, m1, m2)[m] = IF m \in {m1, m2} THEN NoNode ELSE from[m]
  BY <1>1 DEF Erased, EdgeMap
<1>4. (to[n] = m <=> from[m] = n) /\ (to[n1] = m <=> from[m] = n1) /\ (to[n2] = m <=> from[m] = n2)
      /\ from[m1] = n1 /\ from[m2] = n2
  BY <1>1 DEF Agree
<1>5. m # NoNode /\ n # NoNode
  BY ValueAssumption
<1> QED BY <1>1, <1>2, <1>3, <1>4, <1>5

LEMMA AddedAgree ==
  ASSUME NEW to \in EdgeMap, NEW from \in EdgeMap, Agree(to, from),
         NEW n1 \in Value, NEW m1 \in Value, to[n1] = NoNode, from[m1] = NoNode
  PROVE  Agree([to EXCEPT ![n1] = m1], [from EXCEPT ![m1] = n1])
<1> SUFFICES ASSUME NEW n \in Value, NEW m \in Value
             PROVE  [to EXCEPT ![n1] = m1][n] = m <=> [from EXCEPT ![m1] = n1][m] = n
  BY DEF Agree
<1>1. /\ [to EXCEPT ![n1] = m1][n] = IF n = n1 THEN m1 ELSE to[n]
      /\ [from EXCEPT ![m1] = n1][m] = IF m = m1 THEN n1 ELSE from[m]
  BY DEF EdgeMap
<1>2. (to[n] = m <=> from[m] = n) /\ m # NoNode /\ n # NoNode
  BY ValueAssumption DEF Agree
<1> QED BY <1>1, <1>2

-----------------------------------------------------------------------------
(* The frames. *)

Half == {"toReturn", "fromReturn"}

\* The places of the edges between a pair of nodes and the pair merged first.
Reserved(out, in, fr) ==
  /\ out[fr.n1] = NoNode /\ out[fr.n2] = NoNode
  /\ in[fr.m1] = NoNode /\ in[fr.m2] = NoNode

FrameOK(fr, to, from, classes, lvl) ==
  /\ lvl[fr.n1] = lvl[fr.n2]
  /\ classes[fr.n2] # {}
  /\ fr.at = "enter" => classes[fr.n1] # {}
  /\ fr.at # "enter" => fr.n1 # fr.n2
  /\ fr.at \in Half => /\ fr.m1 \in Value /\ fr.m2 \in Value
                       /\ lvl[fr.m1] = lvl[fr.m2] /\ classes[fr.m2] # {}
  /\ fr.at = "toReturn" => lvl[fr.n2] = lvl[fr.m2] + 1 /\ Reserved(to, from, fr)
  /\ fr.at = "fromReturn" => lvl[fr.m2] = lvl[fr.n2] + 1 /\ Reserved(from, to, fr)

FramesOK(lvl) ==
  \A j \in 1..Len(stack) : FrameOK(stack[j], ToNodeMap, FromNodeMap, aliasclass, lvl)

\* All frames that wait do so in one half, and each called the next.
Chained(half, lvl) ==
  /\ \A j \in 1..(Len(stack) - 1) :
       /\ stack[j].at = half
       /\ stack[j].m1 = stack[j + 1].n1 /\ stack[j].m2 = stack[j + 1].n2
  /\ stack # <<>> /\ top.at \in Half => top.at = half
  /\ \A j, l \in 1..Len(stack) : j < l =>
       IF half = "toReturn" THEN lvl[stack[l].n2] < lvl[stack[j].n2]
                            ELSE lvl[stack[l].n2] > lvl[stack[j].n2]

\* An emptied node has edges only until the frame that emptied it moves them.
Emptied ==
  \A n \in Value : aliasclass[n] = {} =>
    /\ ToNodeMap[n] # NoNode => stack # <<>> /\ top.at = "to" /\ top.n1 = n
    /\ FromNodeMap[n] # NoNode =>
         \E j \in 1..Len(stack) : stack[j].at \in {"to", "toReturn", "from"} /\ stack[j].n1 = n

LevelInv(lvl) ==
  /\ Agree(ToNodeMap, FromNodeMap)
  /\ Falling(ToNodeMap, lvl)
  /\ NodesLevelled(lvl)
  /\ FramesOK(lvl)
  /\ \E half \in Half : Chained(half, lvl)
  /\ Emptied

LEMMA TopOK ==
  ASSUME NEW lvl, Levelled(lvl), TypeOK, stack # <<>>, FramesOK(lvl)
  PROVE  /\ Len(stack) \in Nat \ {0}
         /\ top \in Frame /\ top.n1 \in Value /\ top.n2 \in Value
         /\ FrameOK(top, ToNodeMap, FromNodeMap, aliasclass, lvl)
         /\ lvl \in [Value -> Nat]
         /\ \A j \in 1..Len(stack) : stack[j] \in Frame /\ stack[j].n1 \in Value /\ stack[j].n2 \in Value
<1>1. stack \in Seq(Frame)
  BY DEF TypeOK
<1>2. Len(stack) \in Nat \ {0} /\ top \in Frame /\ Len(stack) \in 1..Len(stack)
  BY <1>1, TopType
<1>3. \A j \in 1..Len(stack) : stack[j] \in Frame
  BY <1>1
<1>4. \A fr \in Frame : fr.n1 \in Value /\ fr.n2 \in Value
  BY DEF Frame
<1>5. FrameOK(top, ToNodeMap, FromNodeMap, aliasclass, lvl)
  BY <1>2 DEF FramesOK, top
<1> QED BY <1>2, <1>3, <1>4, <1>5 DEF Levelled

\* The frames that wait are levels away from the running one.
LEMMA Below ==
  ASSUME NEW lvl, Levelled(lvl), TypeOK, stack # <<>>, FramesOK(lvl),
         NEW half \in Half, Chained(half, lvl), NEW j \in 1..(Len(stack) - 1)
  PROVE  /\ stack[j] \in Frame /\ stack[j].n1 \in Value /\ stack[j].n2 \in Value
         /\ stack[j].m1 \in Value /\ stack[j].m2 \in Value
         /\ stack[j].at = half
         /\ FrameOK(stack[j], ToNodeMap, FromNodeMap, aliasclass, lvl)
         /\ half = "toReturn" =>
              /\ lvl[stack[j].n1] > lvl[top.n2] /\ lvl[stack[j].n2] > lvl[top.n2]
              /\ lvl[stack[j].m1] >= lvl[top.n2] /\ lvl[stack[j].m2] >= lvl[top.n2]
         /\ half = "fromReturn" =>
              /\ lvl[stack[j].n1] < lvl[top.n2] /\ lvl[stack[j].n2] < lvl[top.n2]
              /\ lvl[stack[j].m1] <= lvl[top.n2] /\ lvl[stack[j].m2] <= lvl[top.n2]
<1>1. j \in 1..Len(stack) /\ Len(stack) \in 1..Len(stack) /\ j < Len(stack)
  BY TopOK
<1>2. stack[j] \in Frame /\ stack[j].n1 \in Value /\ stack[j].n2 \in Value /\ top.n2 \in Value
  BY <1>1, TopOK
<1>3. FrameOK(stack[j], ToNodeMap, FromNodeMap, aliasclass, lvl)
  BY <1>1 DEF FramesOK
<1>4. stack[j].at = half
  BY DEF Chained
<1>5. IF half = "toReturn" THEN lvl[top.n2] < lvl[stack[j].n2] ELSE lvl[top.n2] > lvl[stack[j].n2]
  BY <1>1 DEF Chained, top
<1>6. /\ stack[j].m1 \in Value /\ stack[j].m2 \in Value
      /\ lvl[stack[j].n1] = lvl[stack[j].n2] /\ lvl[stack[j].m1] = lvl[stack[j].m2]
      /\ half = "toReturn" => lvl[stack[j].n2] = lvl[stack[j].m2] + 1
      /\ half = "fromReturn" => lvl[stack[j].m2] = lvl[stack[j].n2] + 1
  BY <1>3, <1>4 DEF FrameOK
<1>7. lvl[stack[j].n2] \in Nat /\ lvl[stack[j].m2] \in Nat /\ lvl[top.n2] \in Nat
  BY <1>2, <1>6 DEF Levelled
<1>8. half \in {"toReturn", "fromReturn"}
  BY DEF Half
<1>9. /\ half = "toReturn" =>
           /\ lvl[stack[j].n1] > lvl[top.n2] /\ lvl[stack[j].n2] > lvl[top.n2]
           /\ lvl[stack[j].m1] >= lvl[top.n2] /\ lvl[stack[j].m2] >= lvl[top.n2]
      /\ half = "fromReturn" =>
           /\ lvl[stack[j].n1] < lvl[top.n2] /\ lvl[stack[j].n2] < lvl[top.n2]
           /\ lvl[stack[j].m1] <= lvl[top.n2] /\ lvl[stack[j].m2] <= lvl[top.n2]
  BY <1>5, <1>6, <1>7, <1>8
<1> QED BY <1>2, <1>3, <1>4, <1>6, <1>9

\* Changing edges at the running frame's levels leaves the reserved places free.
LEMMA BelowKept ==
  ASSUME NEW lvl, Levelled(lvl), TypeOK, stack # <<>>, FramesOK(lvl),
         NEW half \in Half, Chained(half, lvl), NEW to, NEW from,
         half = "toReturn" => \A n \in Value :
           (to[n] = ToNodeMap[n] \/ lvl[n] <= lvl[top.n2]) /\ (from[n] = FromNodeMap[n] \/ lvl[n] < lvl[top.n2]),
         half = "fromReturn" => \A n \in Value :
           (from[n] = FromNodeMap[n] \/ lvl[n] >= lvl[top.n2]) /\ (to[n] = ToNodeMap[n] \/ lvl[n] > lvl[top.n2])
  PROVE  \A j \in 1..(Len(stack) - 1) : FrameOK(stack[j], to, from, aliasclass, lvl)
<1> SUFFICES ASSUME NEW j \in 1..(Len(stack) - 1)
             PROVE  FrameOK(stack[j], to, from, aliasclass, lvl)
  OBVIOUS
<1> DEFINE fr == stack[j]
<1>1. /\ fr.n1 \in Value /\ fr.n2 \in Value /\ fr.m1 \in Value /\ fr.m2 \in Value
      /\ fr.at = half /\ FrameOK(fr, ToNodeMap, FromNodeMap, aliasclass, lvl)
      /\ half = "toReturn" =>
           /\ lvl[fr.n1] > lvl[top.n2] /\ lvl[fr.n2] > lvl[top.n2]
           /\ lvl[fr.m1] >= lvl[top.n2] /\ lvl[fr.m2] >= lvl[top.n2]
      /\ half = "fromReturn" =>
           /\ lvl[fr.n1] < lvl[top.n2] /\ lvl[fr.n2] < lvl[top.n2]
           /\ lvl[fr.m1] <= lvl[top.n2] /\ lvl[fr.m2] <= lvl[top.n2]
  BY Below
<1>2. \A n \in Value : lvl[n] \in Nat
  BY DEF Levelled
<1>3. top.n2 \in Value
  BY TopOK
<1> HIDE DEF fr
<1>4. CASE half = "toReturn"
  <2>1. to[fr.n1] = ToNodeMap[fr.n1] /\ to[fr.n2] = ToNodeMap[fr.n2]
    BY <1>1, <1>2, <1>3, <1>4
  <2>2. from[fr.m1] = FromNodeMap[fr.m1] /\ from[fr.m2] = FromNodeMap[fr.m2]
    BY <1>1, <1>2, <1>3, <1>4
  <2> QED BY <1>1, <1>4, <2>1, <2>2 DEF FrameOK, Reserved, fr
<1>5. CASE half = "fromReturn"
  <2>1. from[fr.n1] = FromNodeMap[fr.n1] /\ from[fr.n2] = FromNodeMap[fr.n2]
    BY <1>1, <1>2, <1>3, <1>5
  <2>2. to[fr.m1] = ToNodeMap[fr.m1] /\ to[fr.m2] = ToNodeMap[fr.m2]
    BY <1>1, <1>2, <1>3, <1>5
  <2> QED BY <1>1, <1>5, <2>1, <2>2 DEF FrameOK, Reserved, fr
<1> QED BY <1>4, <1>5 DEF Half

-----------------------------------------------------------------------------
(* The three ways a step changes the stack. *)

BelowOK(lvl) ==
  \A j \in 1..(Len(stack) - 1) : FrameOK(stack[j], ToNodeMap', FromNodeMap', aliasclass', lvl)

LEMMA PopLevels ==
  ASSUME NEW lvl, TypeOK, stack # <<>>, Pop, BelowOK(lvl), NEW half \in Half, Chained(half, lvl)
  PROVE  FramesOK(lvl)' /\ Chained(half, lvl)'
<1>1. /\ Len(stack) \in Nat \ {0}
      /\ Len(stack') = Len(stack) - 1
      /\ \A j \in 1..Len(stack') : stack'[j] = stack[j]
  BY PopType, TopType DEF TypeOK
<1>2. \A j \in 1..Len(stack') : j \in 1..(Len(stack) - 1) /\ j \in 1..Len(stack)
  BY <1>1
<1>3. FramesOK(lvl)'
  BY <1>1, <1>2 DEF FramesOK, BelowOK
<1>4. ASSUME NEW j \in 1..(Len(stack') - 1)
      PROVE  /\ stack'[j].at = half
             /\ stack'[j].m1 = stack'[j + 1].n1 /\ stack'[j].m2 = stack'[j + 1].n2
  <2>1. j \in 1..Len(stack') /\ j + 1 \in 1..Len(stack') /\ j \in 1..(Len(stack) - 1)
    BY <1>1
  <2> QED BY <1>1, <2>1 DEF Chained
<1>5. ASSUME stack' # <<>>
      PROVE  top'.at = half
  <2>1. Len(stack') \in 1..Len(stack')
    <3>1. stack' \in Seq(Frame)
      BY PopType DEF TypeOK
    <3> QED BY <1>5, <3>1
  <2>2. top' = stack[Len(stack')] /\ Len(stack') \in 1..(Len(stack) - 1)
    BY <1>1, <1>2, <2>1 DEF top
  <2> QED BY <2>2 DEF Chained
<1>6. \A j, l \in 1..Len(stack') : j < l =>
        IF half = "toReturn" THEN lvl[stack'[l].n2] < lvl[stack'[j].n2]
                             ELSE lvl[stack'[l].n2] > lvl[stack'[j].n2]
  BY <1>1, <1>2 DEF Chained
<1> QED BY <1>3, <1>4, <1>5, <1>6 DEF Chained

LEMMA GoOnLevels ==
  ASSUME NEW lvl, TypeOK, stack # <<>>, NEW at \in {"to", "from"}, GoOn(at), BelowOK(lvl),
         NEW half \in Half, Chained(half, lvl),
         lvl[top.n1] = lvl[top.n2], top.n1 # top.n2, aliasclass'[top.n2] # {}
  PROVE  FramesOK(lvl)' /\ Chained(half, lvl)'
<1>1. /\ Len(stack) \in Nat \ {0} /\ Len(stack') = Len(stack)
      /\ \A j \in 1..(Len(stack) - 1) : stack'[j] = stack[j]
      /\ top'.at = at /\ top'.n1 = top.n1 /\ top'.n2 = top.n2
  BY GoOnAt, TopType DEF TypeOK, Phase
<1>2. top' = stack'[Len(stack)]
  BY <1>1 DEF top
<1>3. \A j \in 1..Len(stack') : j \in 1..(Len(stack) - 1) \/ j = Len(stack)
  BY <1>1
<1>4. FrameOK(top', ToNodeMap', FromNodeMap', aliasclass', lvl)
  BY <1>1 DEF FrameOK, Half
<1>5. FramesOK(lvl)'
  <2> SUFFICES ASSUME NEW j \in 1..Len(stack')
               PROVE  FrameOK(stack'[j], ToNodeMap', FromNodeMap', aliasclass', lvl)
    BY DEF FramesOK
  <2> QED BY <1>1, <1>2, <1>3, <1>4 DEF BelowOK
<1>6. \A j \in 1..Len(stack') : stack'[j].n1 = stack[j].n1 /\ stack'[j].n2 = stack[j].n2
  BY <1>1, <1>2, <1>3 DEF top
<1>7. ASSUME NEW j \in 1..(Len(stack') - 1)
      PROVE  /\ stack'[j].at = half
             /\ stack'[j].m1 = stack'[j + 1].n1 /\ stack'[j].m2 = stack'[j + 1].n2
  <2>1. j \in 1..(Len(stack) - 1) /\ j + 1 \in 1..Len(stack')
    BY <1>1
  <2> QED BY <1>1, <1>6, <2>1 DEF Chained
<1>8. \A j, l \in 1..Len(stack') : j < l =>
        IF half = "toReturn" THEN lvl[stack'[l].n2] < lvl[stack'[j].n2]
                             ELSE lvl[stack'[l].n2] > lvl[stack'[j].n2]
  BY <1>1, <1>6 DEF Chained
<1> QED BY <1>1, <1>5, <1>7, <1>8 DEF Chained, Half

LEMMA RecurseLevels ==
  ASSUME NEW lvl, Levelled(lvl), TypeOK, stack # <<>>, FramesOK(lvl), BelowOK(lvl),
         NEW half \in Half, Chained(half, lvl),
         NEW m1 \in Value, NEW m2 \in Value, Recurse(half, m1, m2),
         top.n1 # top.n2, lvl[m1] = lvl[m2], aliasclass'[top.n2] # {},
         aliasclass'[m1] # {}, aliasclass'[m2] # {},
         half = "toReturn" => /\ lvl[top.n2] = lvl[m2] + 1
                              /\ ToNodeMap'[top.n1] = NoNode /\ ToNodeMap'[top.n2] = NoNode
                              /\ FromNodeMap'[m1] = NoNode /\ FromNodeMap'[m2] = NoNode,
         half = "fromReturn" => /\ lvl[m2] = lvl[top.n2] + 1
                                /\ FromNodeMap'[top.n1] = NoNode /\ FromNodeMap'[top.n2] = NoNode
                                /\ ToNodeMap'[m1] = NoNode /\ ToNodeMap'[m2] = NoNode
  PROVE  FramesOK(lvl)' /\ Chained(half, lvl)'
<1> DEFINE size == Len(stack)
<1>1. /\ size \in Nat \ {0} /\ top.n1 \in Value /\ top.n2 \in Value
      /\ lvl[top.n1] = lvl[top.n2]
  BY TopOK DEF FrameOK
<1>2. /\ Len(stack') = size + 1
      /\ \A j \in 1..(size - 1) : stack'[j] = stack[j]
      /\ stack'[size] = Activation(top.n1, top.n2, half, m1, m2)
      /\ stack'[size + 1] = Activation(m1, m2, "enter", NoNode, NoNode)
  BY RecurseType DEF TypeOK, Half, Phase
<1>3. top' = stack'[size + 1] /\ stack[size] = top
  BY <1>2 DEF top
<1>4. \A j \in 1..Len(stack') : j \in 1..(size - 1) \/ j = size \/ j = size + 1
  BY <1>1, <1>2
<1>5. FrameOK(stack'[size], ToNodeMap', FromNodeMap', aliasclass', lvl)
  BY <1>1, <1>2 DEF FrameOK, Reserved, Activation, Half
<1>6. FrameOK(stack'[size + 1], ToNodeMap', FromNodeMap', aliasclass', lvl)
  BY <1>2 DEF FrameOK, Activation, Half
<1>7. FramesOK(lvl)'
  <2> SUFFICES ASSUME NEW j \in 1..Len(stack')
               PROVE  FrameOK(stack'[j], ToNodeMap', FromNodeMap', aliasclass', lvl)
    BY DEF FramesOK
  <2>1. CASE j \in 1..(size - 1)
    BY <1>2, <2>1 DEF BelowOK
  <2> QED BY <1>4, <1>5, <1>6, <2>1
<1>8. ASSUME NEW j \in 1..(Len(stack') - 1)
      PROVE  /\ stack'[j].at = half
             /\ stack'[j].m1 = stack'[j + 1].n1 /\ stack'[j].m2 = stack'[j + 1].n2
  <2>1. CASE j = size
    BY <1>2, <2>1 DEF Activation
  <2>2. CASE j # size
    <3>1. j \in 1..(size - 1) /\ (j + 1 \in 1..(size - 1) \/ j + 1 = size)
      BY <1>1, <1>2, <2>2
    <3>2. stack'[j + 1].n1 = stack[j + 1].n1 /\ stack'[j + 1].n2 = stack[j + 1].n2
      BY <1>2, <1>3, <3>1 DEF Activation
    <3> QED BY <1>2, <3>1, <3>2 DEF Chained
  <2> QED BY <2>1, <2>2
<1>9. top'.at = "enter"
  BY <1>2, <1>3 DEF Activation
<1>10. ASSUME NEW j \in 1..Len(stack'), NEW l \in 1..Len(stack'), j < l
       PROVE  IF half = "toReturn" THEN lvl[stack'[l].n2] < lvl[stack'[j].n2]
                                   ELSE lvl[stack'[l].n2] > lvl[stack'[j].n2]
  <2>1. \A k \in 1..size : stack'[k].n2 = stack[k].n2
    BY <1>1, <1>2, <1>3 DEF Activation
  <2>2. CASE l \in 1..size
    <3>1. j \in 1..size
      BY <1>1, <1>10, <2>2
    <3> QED BY <1>10, <2>1, <2>2, <3>1 DEF Chained
  <2>3. CASE l = size + 1
    <3>1. stack'[l].n2 = m2 /\ j \in 1..size
      BY <1>1, <1>2, <1>10, <2>3 DEF Activation
    <3>2. IF half = "toReturn" THEN lvl[m2] < lvl[top.n2] ELSE lvl[m2] > lvl[top.n2]
      BY <1>1 DEF Half, Levelled
    <3>3. CASE j = size
      BY <1>3, <2>1, <3>1, <3>2, <3>3
    <3>4. CASE j < size
      <4>1. j \in 1..(size - 1) /\ stack[j].n2 \in Value
        BY <1>1, <3>1, <3>4, TopOK
      <4>2. IF half = "toReturn" THEN lvl[top.n2] < lvl[stack[j].n2]
                                 ELSE lvl[top.n2] > lvl[stack[j].n2]
        BY <1>1, <3>1, <3>4 DEF Chained, top
      <4>3. lvl[m2] \in Nat /\ lvl[top.n2] \in Nat /\ lvl[stack[j].n2] \in Nat
        BY <1>1, <4>1 DEF Levelled
      <4> QED BY <2>1, <3>1, <3>2, <4>2, <4>3
    <3> QED BY <1>1, <3>1, <3>3, <3>4
  <2> QED BY <1>1, <1>2, <2>2, <2>3
<1> QED BY <1>7, <1>8, <1>9, <1>10 DEF Chained, Half

-----------------------------------------------------------------------------
(* The steps of mergeNode. *)

LEMMA HalfOf ==
  ASSUME NEW lvl, Levelled(lvl), TypeOK, stack # <<>>, LevelInv(lvl), top.at \notin Half,
         NEW half \in Half,
         IF half = "toReturn" THEN ToNodeMap[top.n1] # NoNode \/ ToNodeMap[top.n2] # NoNode
                              ELSE FromNodeMap[top.n1] # NoNode \/ FromNodeMap[top.n2] # NoNode
  PROVE  Chained(half, lvl)
<1>1. PICK h \in Half : Chained(h, lvl)
  BY DEF LevelInv
<1>2. Len(stack) \in Nat \ {0} /\ FramesOK(lvl)
  BY TopOK DEF LevelInv
<1>3. CASE Len(stack) = 1
  BY <1>3 DEF Chained
<1>4. CASE Len(stack) # 1
  <2>0. \A size \in Nat \ {0} : size # 1 => \E j \in 1..(size - 1) : j \in 1..size /\ j + 1 = size
    <3> SUFFICES ASSUME NEW size \in Nat \ {0}, size # 1
                 PROVE  \E j \in 1..(size - 1) : j \in 1..size /\ j + 1 = size
      OBVIOUS
    <3> WITNESS size - 1 \in 1..(size - 1)
    <3> QED OBVIOUS
  <2>1. PICK j \in 1..(Len(stack) - 1) : j \in 1..Len(stack) /\ j + 1 = Len(stack)
    BY <1>2, <1>4, <2>0
  <2>2. FrameOK(stack[j], ToNodeMap, FromNodeMap, aliasclass, lvl)
    BY <1>2, <2>1 DEF FramesOK
  <2>3. stack[j].at = h /\ stack[j].m1 = top.n1 /\ stack[j].m2 = top.n2
    BY <1>1, <2>1 DEF Chained, top
  <2>4. /\ h = "toReturn" => FromNodeMap[top.n1] = NoNode /\ FromNodeMap[top.n2] = NoNode
        /\ h = "fromReturn" => ToNodeMap[top.n1] = NoNode /\ ToNodeMap[top.n2] = NoNode
    BY <2>2, <2>3 DEF FrameOK, Reserved
  <2>5. h = half
    BY <2>4 DEF Half
  <2> QED BY <1>1, <2>5
<1> QED BY <1>3, <1>4

LEMMA BlockedLevels ==
  ASSUME NEW lvl, Levelled(lvl), TypeOK, LevelInv(lvl), MergeBlocked \/ MergeSelf
  PROVE  LevelInv(lvl)'
<1>1. stack # <<>> /\ top.at = "enter" /\ Pop /\ UNCHANGED <<NodeMap, aliasclass, ToNodeMap, FromNodeMap>>
  BY DEF MergeBlocked, MergeSelf, Running, graph
<1>2. PICK half \in Half : Chained(half, lvl)
  BY DEF LevelInv
<1>3. Len(stack) \in Nat \ {0}
  BY <1>1, TopOK DEF LevelInv
<1>4. BelowOK(lvl)
  BY <1>1, <1>3 DEF LevelInv, FramesOK, BelowOK
<1>5. FramesOK(lvl)' /\ Chained(half, lvl)'
  BY <1>1, <1>2, <1>4, PopLevels
<1>6. /\ Len(stack') = Len(stack) - 1
      /\ \A j \in 1..Len(stack') : stack'[j] = stack[j]
  BY <1>1, PopType DEF TypeOK
<1>7. ASSUME NEW n \in Value, aliasclass[n] = {}
      PROVE  /\ ToNodeMap[n] = NoNode
             /\ FromNodeMap[n] # NoNode =>
                  \E j \in 1..Len(stack') :
                    stack'[j].at \in {"to", "toReturn", "from"} /\ stack'[j].n1 = n
  <2>1. ToNodeMap[n] = NoNode
    BY <1>1, <1>7 DEF LevelInv, Emptied
  <2>2. ASSUME FromNodeMap[n] # NoNode
        PROVE  \E j \in 1..Len(stack') :
                 stack'[j].at \in {"to", "toReturn", "from"} /\ stack'[j].n1 = n
    <3>1. PICK j \in 1..Len(stack) : stack[j].at \in {"to", "toReturn", "from"} /\ stack[j].n1 = n
      BY <1>7, <2>2 DEF LevelInv, Emptied
    <3>2. j # Len(stack)
      BY <1>1, <3>1 DEF top
    <3>3. j \in 1..Len(stack')
      BY <1>3, <1>6, <3>2
    <3> QED BY <1>6, <3>1, <3>3
  <2> QED BY <2>1, <2>2
<1>8. Emptied'
  BY <1>1, <1>7 DEF Emptied
<1>9. Agree(ToNodeMap', FromNodeMap') /\ Falling(ToNodeMap', lvl) /\ NodesLevelled(lvl)'
  BY <1>1 DEF LevelInv, NodesLevelled
<1> QED BY <1>2, <1>5, <1>8, <1>9 DEF LevelInv

LEMMA ValuesLevels ==
  ASSUME NEW lvl, Levelled(lvl), Inv, LevelInv(lvl), MergeValues
  PROVE  LevelInv(lvl)'
<1> DEFINE n1 == top.n1
           n2 == top.n2
<1>0. TypeOK /\ Partition
  BY DEF Inv
<1>1. /\ stack # <<>> /\ top.at = "enter" /\ n1 # n2 /\ GoOn("to")
      /\ UNCHANGED <<ToNodeMap, FromNodeMap>>
      /\ NodeMap' = [v \in Value |-> IF v \in aliasclass[n1] THEN n2 ELSE NodeMap[v]]
      /\ aliasclass' = ClassesMerged(n1, n2)
  BY DEF MergeValues, Running
<1>2. FramesOK(lvl) /\ \E half \in Half : Chained(half, lvl)
  BY DEF LevelInv
<1>3. /\ Len(stack) \in Nat \ {0} /\ n1 \in Value /\ n2 \in Value
      /\ lvl[n1] = lvl[n2] /\ aliasclass[n1] # {} /\ aliasclass[n2] # {}
  BY <1>0, <1>1, <1>2, TopOK DEF FrameOK
<1>4. \A n \in Value : aliasclass'[n] = IF n = n2 THEN aliasclass[n2] \cup aliasclass[n1]
                                       ELSE IF n = n1 THEN {} ELSE aliasclass[n]
  BY <1>0, <1>1, <1>3 DEF ClassesMerged, TypeOK
<1>5. \A n \in Value : n # n1 /\ aliasclass[n] # {} => aliasclass'[n] # {}
  BY <1>4
<1>6. PICK half \in Half : Chained(half, lvl)
  BY <1>2
<1>7. BelowOK(lvl)
  <2> SUFFICES ASSUME NEW j \in 1..(Len(stack) - 1)
               PROVE  FrameOK(stack[j], ToNodeMap', FromNodeMap', aliasclass', lvl)
    BY DEF BelowOK
  <2> DEFINE fr == stack[j]
  <2>1. /\ fr.n1 \in Value /\ fr.n2 \in Value /\ fr.m1 \in Value /\ fr.m2 \in Value
        /\ fr.at = half /\ FrameOK(fr, ToNodeMap, FromNodeMap, aliasclass, lvl)
        /\ half = "toReturn" => lvl[fr.n2] > lvl[n2]
        /\ half = "fromReturn" => lvl[fr.n2] < lvl[n2]
    BY <1>0, <1>1, <1>2, <1>6, Below
  <2>2. lvl[fr.n2] \in Nat /\ lvl[n2] \in Nat
    BY <1>3, <2>1 DEF Levelled
  <2>3. fr.n2 # n1
    BY <1>3, <2>1, <2>2 DEF Half
  <2>4. fr.m2 # n1
    <3>1. j + 1 \in 1..Len(stack) /\ j + 1 \in Nat
      BY <1>3
    <3>2. fr.m2 = stack[j + 1].n2
      BY <1>6 DEF Chained
    <3>3. CASE j + 1 = Len(stack)
      BY <1>1, <3>2, <3>3 DEF top
    <3>4. CASE j + 1 # Len(stack)
      <4>1. j + 1 \in 1..(Len(stack) - 1)
        BY <1>3, <3>1, <3>4
      <4>2. /\ stack[j + 1].n2 \in Value
            /\ half = "toReturn" => lvl[stack[j + 1].n2] > lvl[n2]
            /\ half = "fromReturn" => lvl[stack[j + 1].n2] < lvl[n2]
        BY <1>0, <1>1, <1>2, <1>6, <4>1, Below
      <4>3. lvl[stack[j + 1].n2] \in Nat
        BY <4>2 DEF Levelled
      <4> QED BY <1>3, <2>2, <3>2, <4>2, <4>3 DEF Half
    <3> QED BY <3>3, <3>4
  <2> HIDE DEF fr
  <2>5. aliasclass'[fr.n2] # {} /\ aliasclass'[fr.m2] # {}
    BY <1>5, <2>1, <2>3, <2>4 DEF FrameOK
  <2>6. fr.at \in Half /\ fr.at # "enter"
    BY <2>1 DEF Half
  <2> QED BY <1>1, <2>1, <2>5, <2>6 DEF FrameOK, fr
<1>8. FramesOK(lvl)' /\ Chained(half, lvl)'
  <2>1. aliasclass'[n2] # {}
    BY <1>3, <1>4
  <2> QED BY <1>0, <1>1, <1>3, <1>6, <1>7, <2>1, GoOnLevels
<1>9. NodesLevelled(lvl)'
  <2> SUFFICES ASSUME NEW v \in Value, NodeMap'[v] # NoNode
               PROVE  lvl[NodeMap'[v]] = lvl[v]
    BY DEF NodesLevelled
  <2>1. CASE v \in aliasclass[n1]
    <3>1. NodeMap[v] = n1 /\ n1 # NoNode
      BY <1>0, <1>3, <2>1, ValueAssumption DEF Partition
    <3>2. lvl[n1] = lvl[v]
      BY <3>1 DEF LevelInv, NodesLevelled
    <3> QED BY <1>1, <1>3, <2>1, <3>2
  <2>2. CASE v \notin aliasclass[n1]
    BY <1>1, <2>2 DEF LevelInv, NodesLevelled
  <2> QED BY <2>1, <2>2
<1>10. /\ Len(stack') = Len(stack)
       /\ \A j \in 1..(Len(stack) - 1) : stack'[j] = stack[j]
       /\ top'.at = "to" /\ top'.n1 = n1
  BY <1>0, <1>1, GoOnAt DEF TypeOK, Phase
<1>11. top' = stack'[Len(stack)] /\ stack' # <<>>
  BY <1>3, <1>10 DEF top
<1>12. Emptied'
  <2> SUFFICES ASSUME NEW n \in Value, aliasclass'[n] = {}
               PROVE  /\ ToNodeMap'[n] # NoNode => top'.n1 = n
                      /\ FromNodeMap'[n] # NoNode =>
                           \E j \in 1..Len(stack') :
                             stack'[j].at \in {"to", "toReturn", "from"} /\ stack'[j].n1 = n
    BY <1>10, <1>11 DEF Emptied
  <2>1. CASE n = n1
    BY <1>3, <1>10, <1>11, <2>1
  <2>2. CASE n # n1
    <3>1. aliasclass[n] = {}
      BY <1>5, <2>2
    <3>2. ToNodeMap[n] = NoNode
      BY <1>1, <3>1 DEF LevelInv, Emptied
    <3>3. ASSUME FromNodeMap[n] # NoNode
          PROVE  \E j \in 1..Len(stack') :
                   stack'[j].at \in {"to", "toReturn", "from"} /\ stack'[j].n1 = n
      <4>1. PICK j \in 1..Len(stack) : stack[j].at \in {"to", "toReturn", "from"} /\ stack[j].n1 = n
        BY <3>1, <3>3 DEF LevelInv, Emptied
      <4>2. j # Len(stack)
        BY <1>1, <4>1 DEF top
      <4>3. j \in 1..(Len(stack) - 1) /\ j \in 1..Len(stack')
        BY <1>3, <1>10, <4>2
      <4> QED BY <1>10, <4>1, <4>3
    <3> QED BY <1>1, <3>2, <3>3
  <2> QED BY <2>1, <2>2
<1>13. Agree(ToNodeMap', FromNodeMap') /\ Falling(ToNodeMap', lvl)
  BY <1>1 DEF LevelInv
<1> QED BY <1>8, <1>9, <1>12, <1>13 DEF LevelInv

\* The neighbours of the running frame's nodes are not emptied.
LEMMA NeighboursLive ==
  ASSUME NEW lvl, Levelled(lvl), TypeOK, stack # <<>>, LevelInv(lvl),
         NEW n \in {top.n1, top.n2}
  PROVE  /\ top.at = "to" /\ ToNodeMap[n] # NoNode =>
              /\ ToNodeMap[n] \in Value /\ aliasclass[ToNodeMap[n]] # {}
              /\ lvl[ToNodeMap[n]] \in Nat /\ lvl[top.n2] = lvl[ToNodeMap[n]] + 1
         /\ top.at = "from" /\ FromNodeMap[n] # NoNode =>
              /\ FromNodeMap[n] \in Value /\ aliasclass[FromNodeMap[n]] # {}
              /\ lvl[FromNodeMap[n]] \in Nat /\ lvl[FromNodeMap[n]] = lvl[top.n2] + 1
<1>1. FramesOK(lvl) /\ Agree(ToNodeMap, FromNodeMap) /\ Falling(ToNodeMap, lvl) /\ Emptied
  BY DEF LevelInv
<1>2. /\ top.n1 \in Value /\ top.n2 \in Value /\ n \in Value
      /\ lvl[top.n1] = lvl[top.n2] /\ lvl[n] = lvl[top.n2] /\ lvl[n] \in Nat
      /\ Len(stack) \in Nat \ {0}
  BY <1>1, TopOK DEF FrameOK
<1>3. ASSUME top.at = "to", ToNodeMap[n] # NoNode
      PROVE  /\ ToNodeMap[n] \in Value /\ aliasclass[ToNodeMap[n]] # {}
             /\ lvl[ToNodeMap[n]] \in Nat /\ lvl[top.n2] = lvl[ToNodeMap[n]] + 1
  <2> DEFINE m == ToNodeMap[n]
  <2>1. m \in Value /\ FromNodeMap[m] = n /\ n # NoNode
    BY <1>1, <1>2, <1>3, ValueAssumption DEF Agree, TypeOK
  <2>2. lvl[n] = lvl[m] + 1 /\ lvl[m] \in Nat
    BY <1>1, <1>2, <1>3, <2>1 DEF Falling, Levelled
  <2> HIDE DEF m
  <2>3. ASSUME aliasclass[m] = {}
        PROVE  FALSE
    <3>1. PICK j \in 1..Len(stack) : stack[j].at \in {"to", "toReturn", "from"} /\ stack[j].n1 = m
      BY <1>1, <2>1, <2>3 DEF Emptied
    <3>2. CASE j = Len(stack)
      <4>1. top.n1 = m
        BY <3>1, <3>2 DEF top
      <4> QED BY <1>2, <2>2, <4>1
    <3>3. CASE j # Len(stack)
      <4>1. j \in 1..(Len(stack) - 1)
        BY <1>2, <3>3
      <4>2. PICK half \in Half : Chained(half, lvl)
        BY DEF LevelInv
      <4>3. stack[j].at = half /\ (half = "toReturn" => lvl[m] > lvl[top.n2])
        BY <1>1, <3>1, <4>1, <4>2, Below
      <4>4. half = "toReturn"
        BY <3>1, <4>3 DEF Half
      <4> QED BY <1>2, <2>2, <4>3, <4>4
    <3> QED BY <3>2, <3>3
  <2> QED BY <1>2, <2>1, <2>2, <2>3 DEF m
<1>4. ASSUME top.at = "from", FromNodeMap[n] # NoNode
      PROVE  /\ FromNodeMap[n] \in Value /\ aliasclass[FromNodeMap[n]] # {}
             /\ lvl[FromNodeMap[n]] \in Nat /\ lvl[FromNodeMap[n]] = lvl[top.n2] + 1
  <2> DEFINE m == FromNodeMap[n]
  <2>1. m \in Value
    BY <1>2, <1>4 DEF TypeOK
  <2>2. ToNodeMap[m] = n /\ n # NoNode
    BY <1>1, <1>2, <2>1, ValueAssumption DEF Agree
  <2>3. lvl[m] = lvl[n] + 1
    BY <1>1, <2>1, <2>2 DEF Falling
  <2>4. aliasclass[m] # {}
    BY <1>1, <1>4, <2>1, <2>2 DEF Emptied
  <2> HIDE DEF m
  <2> QED BY <1>2, <2>1, <2>3, <2>4 DEF Levelled, m
<1> QED BY <1>3, <1>4

\* No node is emptied by a step that only changes edges, so what must be shown is
\* that it gives no edge to an emptied node, and that a frame that moves the last
\* edge of one may go.
LEMMA EmptiedKept ==
  ASSUME TypeOK, Emptied, stack # <<>>, UNCHANGED aliasclass,
         \A n \in Value : aliasclass[n] = {} => /\ ToNodeMap'[n] = NoNode
                                                /\ FromNodeMap[n] = NoNode => FromNodeMap'[n] = NoNode,
         \A j \in 1..(Len(stack) - 1) : j <= Len(stack') => stack'[j] = stack[j],
         Len(stack') \in Nat, Len(stack') >= Len(stack) - 1,
         \/ top.at \in {"enter", "fromReturn"} \/ FromNodeMap'[top.n1] = NoNode
         \/ /\ Len(stack') >= Len(stack)
            /\ stack'[Len(stack)].at \in {"to", "toReturn", "from"}
            /\ stack'[Len(stack)].n1 = top.n1
  PROVE  Emptied'
<1>1. Len(stack) \in Nat \ {0}
  BY TopType DEF TypeOK
<1> SUFFICES ASSUME NEW n \in Value, aliasclass[n] = {}, FromNodeMap'[n] # NoNode
             PROVE  \E j \in 1..Len(stack') :
                      stack'[j].at \in {"to", "toReturn", "from"} /\ stack'[j].n1 = n
  BY DEF Emptied
<1>2. FromNodeMap[n] # NoNode
  OBVIOUS
<1>3. PICK j \in 1..Len(stack) : stack[j].at \in {"to", "toReturn", "from"} /\ stack[j].n1 = n
  BY <1>2 DEF Emptied
<1>4. CASE j = Len(stack)
  <2>1. top.at \in {"to", "toReturn", "from"} /\ top.n1 = n
    BY <1>3, <1>4 DEF top
  <2>2. /\ Len(stack') >= Len(stack)
        /\ stack'[Len(stack)].at \in {"to", "toReturn", "from"}
        /\ stack'[Len(stack)].n1 = n
    BY <2>1
  <2>3. j \in 1..Len(stack')
    BY <1>1, <1>4, <2>2
  <2> QED BY <1>4, <2>2, <2>3
<1>5. CASE j # Len(stack)
  <2>1. j \in 1..(Len(stack) - 1) /\ j \in 1..Len(stack') /\ j <= Len(stack')
    BY <1>1, <1>5
  <2> QED BY <1>3, <2>1
<1> QED BY <1>4, <1>5

LEMMA ToLevels ==
  ASSUME NEW lvl, Levelled(lvl), TypeOK, LevelInv(lvl), MergeTo
  PROVE  LevelInv(lvl)'
<1> DEFINE n1 == top.n1
           n2 == top.n2
           m1 == ToNodeMap[n1]
           m2 == ToNodeMap[n2]
<1>1. stack # <<>> /\ top.at = "to" /\ UNCHANGED <<NodeMap, aliasclass>>
  BY DEF MergeTo, Running
<1>2. /\ FramesOK(lvl) /\ Agree(ToNodeMap, FromNodeMap) /\ Falling(ToNodeMap, lvl)
      /\ Emptied /\ \E half \in Half : Chained(half, lvl)
  BY DEF LevelInv
<1>3. /\ Len(stack) \in Nat \ {0} /\ n1 \in Value /\ n2 \in Value
      /\ lvl[n1] = lvl[n2] /\ n1 # n2 /\ aliasclass[n2] # {} /\ lvl[n2] \in Nat
  BY <1>1, <1>2, TopOK DEF FrameOK
<1>4. ToNodeMap \in EdgeMap /\ FromNodeMap \in EdgeMap /\ NodesLevelled(lvl)'
  BY <1>1 DEF TypeOK, EdgeMap, LevelInv, NodesLevelled
<1>5. /\ m1 # NoNode => /\ m1 \in Value /\ aliasclass[m1] # {} /\ FromNodeMap[m1] = n1
                        /\ lvl[m1] \in Nat /\ lvl[n2] = lvl[m1] + 1
      /\ m2 # NoNode => /\ m2 \in Value /\ aliasclass[m2] # {} /\ FromNodeMap[m2] = n2
                        /\ lvl[m2] \in Nat /\ lvl[n2] = lvl[m2] + 1
  <2>1. /\ m1 # NoNode => m1 \in Value /\ aliasclass[m1] # {} /\ lvl[m1] \in Nat /\ lvl[n2] = lvl[m1] + 1
        /\ m2 # NoNode => m2 \in Value /\ aliasclass[m2] # {} /\ lvl[m2] \in Nat /\ lvl[n2] = lvl[m2] + 1
    BY <1>1, NeighboursLive
  <2> QED BY <1>2, <1>3, <2>1 DEF Agree
<1>6. m1 = m2 => m1 = NoNode
  BY <1>3, <1>5
<1>7. \A n \in Value : aliasclass[n] = {} /\ ToNodeMap[n] # NoNode => n = n1
  BY <1>2 DEF Emptied
<1>8. stack \in Seq(Frame)
  BY DEF TypeOK
<1>9. CASE m1 = NoNode /\ GoOn("from") /\ UNCHANGED <<ToNodeMap, FromNodeMap>>
  <2>1. PICK half \in Half : Chained(half, lvl)
    BY <1>2
  <2>2. BelowOK(lvl)
    BY <1>1, <1>2, <1>3, <1>9 DEF FramesOK, BelowOK
  <2>3. FramesOK(lvl)' /\ Chained(half, lvl)'
    BY <1>1, <1>3, <1>9, <2>1, <2>2, GoOnLevels
  <2>4. /\ Len(stack') = Len(stack)
        /\ \A j \in 1..(Len(stack) - 1) : stack'[j] = stack[j]
        /\ top'.at = "from" /\ top'.n1 = n1
    BY <1>1, <1>8, <1>9, GoOnAt DEF Phase
  <2>5. stack'[Len(stack)].at = "from" /\ stack'[Len(stack)].n1 = n1
    BY <2>4 DEF top
  <2>6. Emptied'
    BY <1>1, <1>2, <1>3, <1>7, <1>9, <2>4, <2>5, EmptiedKept
  <2> QED BY <1>2, <1>4, <1>9, <2>1, <2>3, <2>6 DEF LevelInv
<1>10. CASE /\ m1 # NoNode /\ m2 = NoNode
            /\ ToNodeMap' = MovedEdge(ToNodeMap, n1, n2)
            /\ FromNodeMap' = [FromNodeMap EXCEPT ![m1] = n2]
            /\ GoOn("from")
  <2>1. Chained("toReturn", lvl)
    BY <1>1, <1>10, HalfOf DEF Half
  <2>2. Agree(ToNodeMap', FromNodeMap')
    BY <1>2, <1>3, <1>4, <1>10, MovedAgree
  <2>3. /\ \A n \in Value : ToNodeMap'[n] = IF n = n2 THEN m1 ELSE IF n = n1 THEN NoNode ELSE ToNodeMap[n]
        /\ \A n \in Value : FromNodeMap'[n] = IF n = m1 THEN n2 ELSE FromNodeMap[n]
    BY <1>4, <1>10 DEF MovedEdge, EdgeMap
  <2> HIDE DEF n1, n2, m1, m2
  <2>4. Falling(ToNodeMap', lvl)
    BY <1>2, <1>5, <1>10, <2>3 DEF Falling
  <2>5. \A n \in Value : /\ ToNodeMap'[n] = ToNodeMap[n] \/ lvl[n] <= lvl[n2]
                         /\ FromNodeMap'[n] = FromNodeMap[n] \/ lvl[n] < lvl[n2]
    BY <1>3, <1>5, <1>10, <2>3
  <2>6. BelowOK(lvl)
    BY <1>1, <1>2, <2>1, <2>5, BelowKept DEF BelowOK, Half, n2
  <2>7. FramesOK(lvl)' /\ Chained("toReturn", lvl)'
    BY <1>1, <1>3, <1>10, <2>1, <2>6, GoOnLevels DEF Half, n1, n2
  <2>8. /\ Len(stack') = Len(stack)
        /\ \A j \in 1..(Len(stack) - 1) : stack'[j] = stack[j]
        /\ top'.at = "from" /\ top'.n1 = n1
    BY <1>1, <1>8, <1>10, GoOnAt DEF Phase, n1
  <2>9. stack'[Len(stack)].at = "from" /\ stack'[Len(stack)].n1 = n1
    BY <2>8 DEF top
  <2>10. \A n \in Value : aliasclass[n] = {} => /\ ToNodeMap'[n] = NoNode
                                                /\ FromNodeMap[n] = NoNode => FromNodeMap'[n] = NoNode
    BY <1>3, <1>5, <1>7, <1>10, <2>3
  <2>11. Emptied'
    BY <1>1, <1>2, <1>3, <2>8, <2>9, <2>10, EmptiedKept DEF n1
  <2> QED BY <1>4, <2>2, <2>4, <2>7, <2>11 DEF LevelInv, Half
<1>11. CASE /\ m1 # NoNode /\ m2 # NoNode /\ m1 # m2
            /\ ToNodeMap' = Erased(ToNodeMap, n1, n2)
            /\ FromNodeMap' = Erased(FromNodeMap, m1, m2)
            /\ Recurse("toReturn", m1, m2)
  <2>1. Chained("toReturn", lvl)
    BY <1>1, <1>11, HalfOf DEF Half
  <2>2. Agree(ToNodeMap', FromNodeMap')
    BY <1>2, <1>3, <1>4, <1>11, ErasedAgree
  <2>0. m1 \in Value /\ m2 \in Value
    BY <1>5, <1>11
  <2> HIDE DEF m1, m2
  <2>3. /\ \A n \in Value : ToNodeMap'[n] = IF n = n1 \/ n = n2 THEN NoNode ELSE ToNodeMap[n]
        /\ \A n \in Value : FromNodeMap'[n] = IF n = m1 \/ n = m2 THEN NoNode ELSE FromNodeMap[n]
    BY <1>3, <1>4, <1>11, <2>0 DEF Erased, EdgeMap
  <2> HIDE DEF n1, n2
  <2>4. Falling(ToNodeMap', lvl)
    BY <1>2, <2>3 DEF Falling
  <2>5. \A n \in Value : /\ ToNodeMap'[n] = ToNodeMap[n] \/ lvl[n] <= lvl[n2]
                         /\ FromNodeMap'[n] = FromNodeMap[n] \/ lvl[n] < lvl[n2]
    BY <1>3, <1>5, <1>11, <2>3
  <2>6. BelowOK(lvl)
    BY <1>1, <1>2, <2>1, <2>5, BelowKept DEF BelowOK, Half, n2
  <2>7. /\ lvl[m1] = lvl[m2] /\ lvl[n2] = lvl[m2] + 1
        /\ ToNodeMap'[n1] = NoNode /\ ToNodeMap'[n2] = NoNode
        /\ FromNodeMap'[m1] = NoNode /\ FromNodeMap'[m2] = NoNode
        /\ aliasclass'[n2] # {} /\ aliasclass'[m1] # {} /\ aliasclass'[m2] # {}
    BY <1>1, <1>3, <1>5, <1>11, <2>0, <2>3
  <2>8. FramesOK(lvl)' /\ Chained("toReturn", lvl)'
    BY <1>1, <1>2, <1>3, <1>11, <2>0, <2>1, <2>6, <2>7, RecurseLevels DEF Half, n1, n2
  <2>9. /\ Len(stack') = Len(stack) + 1
        /\ \A j \in 1..(Len(stack) - 1) : stack'[j] = stack[j]
        /\ stack'[Len(stack)].at = "toReturn" /\ stack'[Len(stack)].n1 = n1
    <3>1. /\ Len(stack') = Len(stack) + 1
          /\ \A j \in 1..(Len(stack) - 1) : stack'[j] = stack[j]
          /\ stack'[Len(stack)] = Activation(top.n1, top.n2, "toReturn", m1, m2)
      BY <1>1, <1>8, <1>11, <2>0, RecurseType DEF Phase
    <3> QED BY <3>1 DEF Activation, n1
  <2>10. \A n \in Value : aliasclass[n] = {} => /\ ToNodeMap'[n] = NoNode
                                                /\ FromNodeMap[n] = NoNode => FromNodeMap'[n] = NoNode
    BY <1>7, <2>3
  <2>11. Emptied'
    BY <1>1, <1>2, <1>3, <2>9, <2>10, EmptiedKept DEF n1
  <2> QED BY <1>4, <2>2, <2>4, <2>8, <2>11 DEF LevelInv, Half
<1>12. \/ (m1 = NoNode \/ m1 = m2) /\ GoOn("from") /\ UNCHANGED <<ToNodeMap, FromNodeMap>>
       \/ /\ m1 # NoNode /\ m2 = NoNode
          /\ ToNodeMap' = MovedEdge(ToNodeMap, n1, n2)
          /\ FromNodeMap' = [FromNodeMap EXCEPT ![m1] = n2]
          /\ GoOn("from")
       \/ /\ m1 # NoNode /\ m2 # NoNode /\ m1 # m2
          /\ ToNodeMap' = Erased(ToNodeMap, n1, n2)
          /\ FromNodeMap' = Erased(FromNodeMap, m1, m2)
          /\ Recurse("toReturn", m1, m2)
  BY DEF MergeTo
<1> HIDE DEF m1, m2, n1, n2
<1> QED BY <1>6, <1>9, <1>10, <1>11, <1>12

LEMMA FromLevels ==
  ASSUME NEW lvl, Levelled(lvl), TypeOK, LevelInv(lvl), MergeFrom
  PROVE  LevelInv(lvl)'
<1> DEFINE n1 == top.n1
           n2 == top.n2
           m1 == FromNodeMap[n1]
           m2 == FromNodeMap[n2]
<1>1. stack # <<>> /\ top.at = "from" /\ UNCHANGED <<NodeMap, aliasclass>>
  BY DEF MergeFrom, Running
<1>2. /\ FramesOK(lvl) /\ Agree(ToNodeMap, FromNodeMap) /\ Falling(ToNodeMap, lvl)
      /\ Emptied /\ \E half \in Half : Chained(half, lvl)
  BY DEF LevelInv
<1>3. /\ Len(stack) \in Nat \ {0} /\ n1 \in Value /\ n2 \in Value
      /\ lvl[n1] = lvl[n2] /\ n1 # n2 /\ aliasclass[n2] # {} /\ lvl[n2] \in Nat
  BY <1>1, <1>2, TopOK DEF FrameOK
<1>4. /\ ToNodeMap \in EdgeMap /\ FromNodeMap \in EdgeMap /\ NodesLevelled(lvl)'
      /\ Agree(FromNodeMap, ToNodeMap)
  BY <1>1, <1>2, AgreeBoth DEF TypeOK, EdgeMap, LevelInv, NodesLevelled
<1>5. /\ m1 # NoNode => /\ m1 \in Value /\ aliasclass[m1] # {} /\ ToNodeMap[m1] = n1
                        /\ lvl[m1] \in Nat /\ lvl[m1] = lvl[n2] + 1
      /\ m2 # NoNode => /\ m2 \in Value /\ aliasclass[m2] # {} /\ ToNodeMap[m2] = n2
                        /\ lvl[m2] \in Nat /\ lvl[m2] = lvl[n2] + 1
  <2>1. /\ m1 # NoNode => m1 \in Value /\ aliasclass[m1] # {} /\ lvl[m1] \in Nat /\ lvl[m1] = lvl[n2] + 1
        /\ m2 # NoNode => m2 \in Value /\ aliasclass[m2] # {} /\ lvl[m2] \in Nat /\ lvl[m2] = lvl[n2] + 1
    BY <1>1, NeighboursLive
  <2> QED BY <1>3, <1>4, <2>1 DEF Agree
<1>6. m1 = m2 => m1 = NoNode
  BY <1>3, <1>5
<1>7. \A n \in Value : aliasclass[n] = {} => ToNodeMap[n] = NoNode
  BY <1>1, <1>2 DEF Emptied
<1>8. stack \in Seq(Frame)
  BY DEF TypeOK
<1>9. Pop => /\ Len(stack') = Len(stack) - 1
             /\ \A j \in 1..(Len(stack) - 1) : stack'[j] = stack[j]
  BY <1>1, <1>8, PopType
<1>10. CASE m1 = NoNode /\ Pop /\ UNCHANGED <<ToNodeMap, FromNodeMap>>
  <2>1. PICK half \in Half : Chained(half, lvl)
    BY <1>2
  <2>2. BelowOK(lvl)
    BY <1>1, <1>2, <1>3, <1>10 DEF FramesOK, BelowOK
  <2>3. FramesOK(lvl)' /\ Chained(half, lvl)'
    BY <1>1, <1>10, <2>1, <2>2, PopLevels
  <2>4. Emptied'
    BY <1>1, <1>2, <1>3, <1>7, <1>9, <1>10, EmptiedKept
  <2> QED BY <1>2, <1>4, <1>10, <2>1, <2>3, <2>4 DEF LevelInv
<1>11. CASE /\ m1 # NoNode /\ m2 = NoNode
            /\ FromNodeMap' = MovedEdge(FromNodeMap, n1, n2)
            /\ ToNodeMap' = [ToNodeMap EXCEPT ![m1] = n2]
            /\ Pop
  <2>1. Chained("fromReturn", lvl)
    BY <1>1, <1>11, HalfOf DEF Half
  <2>2. Agree(ToNodeMap', FromNodeMap')
    BY <1>3, <1>4, <1>11, MovedAgree, AgreeBoth
  <2>0. m1 \in Value
    BY <1>5, <1>11
  <2> HIDE DEF m1
  <2>3. /\ \A n \in Value : FromNodeMap'[n] = IF n = n2 THEN m1 ELSE IF n = n1 THEN NoNode ELSE FromNodeMap[n]
        /\ \A n \in Value : ToNodeMap'[n] = IF n = m1 THEN n2 ELSE ToNodeMap[n]
    BY <1>4, <1>11, <2>0 DEF MovedEdge, EdgeMap, m1
  <2> HIDE DEF n1, n2, m2
  <2>4. Falling(ToNodeMap', lvl)
    BY <1>2, <1>5, <1>11, <2>3 DEF Falling
  <2>5. \A n \in Value : /\ FromNodeMap'[n] = FromNodeMap[n] \/ lvl[n] >= lvl[n2]
                         /\ ToNodeMap'[n] = ToNodeMap[n] \/ lvl[n] > lvl[n2]
    BY <1>3, <1>5, <1>11, <2>3
  <2>6. BelowOK(lvl)
    BY <1>1, <1>2, <2>1, <2>5, BelowKept DEF BelowOK, Half, n2
  <2>7. FramesOK(lvl)' /\ Chained("fromReturn", lvl)'
    BY <1>1, <1>11, <2>1, <2>6, PopLevels DEF Half
  <2>8. \A n \in Value : aliasclass[n] = {} => /\ ToNodeMap'[n] = NoNode
                                               /\ FromNodeMap[n] = NoNode => FromNodeMap'[n] = NoNode
    BY <1>3, <1>5, <1>7, <1>11, <2>3
  <2>9. FromNodeMap'[n1] = NoNode
    BY <1>3, <2>3
  <2>10. Emptied'
    BY <1>1, <1>2, <1>3, <1>9, <1>11, <2>8, <2>9, EmptiedKept DEF n1
  <2> QED BY <1>4, <2>2, <2>4, <2>7, <2>10 DEF LevelInv, Half
<1>12. CASE /\ m1 # NoNode /\ m2 # NoNode /\ m1 # m2
            /\ FromNodeMap' = Erased(FromNodeMap, n1, n2)
            /\ ToNodeMap' = Erased(ToNodeMap, m1, m2)
            /\ Recurse("fromReturn", m1, m2)
  <2>1. Chained("fromReturn", lvl)
    BY <1>1, <1>12, HalfOf DEF Half
  <2>2. Agree(ToNodeMap', FromNodeMap')
    BY <1>3, <1>4, <1>12, ErasedAgree, AgreeBoth
  <2>0. m1 \in Value /\ m2 \in Value
    BY <1>5, <1>12
  <2> HIDE DEF m1, m2
  <2>3. /\ \A n \in Value : FromNodeMap'[n] = IF n = n1 \/ n = n2 THEN NoNode ELSE FromNodeMap[n]
        /\ \A n \in Value : ToNodeMap'[n] = IF n = m1 \/ n = m2 THEN NoNode ELSE ToNodeMap[n]
    BY <1>3, <1>4, <1>12, <2>0 DEF Erased, EdgeMap
  <2> HIDE DEF n1, n2
  <2>4. Falling(ToNodeMap', lvl)
    BY <1>2, <2>3 DEF Falling
  <2>5. \A n \in Value : /\ FromNodeMap'[n] = FromNodeMap[n] \/ lvl[n] >= lvl[n2]
                         /\ ToNodeMap'[n] = ToNodeMap[n] \/ lvl[n] > lvl[n2]
    BY <1>3, <1>5, <1>12, <2>3
  <2>6. BelowOK(lvl)
    BY <1>1, <1>2, <2>1, <2>5, BelowKept DEF BelowOK, Half, n2
  <2>7. /\ lvl[m1] = lvl[m2] /\ lvl[m2] = lvl[n2] + 1
        /\ FromNodeMap'[n1] = NoNode /\ FromNodeMap'[n2] = NoNode
        /\ ToNodeMap'[m1] = NoNode /\ ToNodeMap'[m2] = NoNode
        /\ aliasclass'[n2] # {} /\ aliasclass'[m1] # {} /\ aliasclass'[m2] # {}
    BY <1>1, <1>3, <1>5, <1>12, <2>0, <2>3
  <2>8. FramesOK(lvl)' /\ Chained("fromReturn", lvl)'
    BY <1>1, <1>2, <1>3, <1>12, <2>0, <2>1, <2>6, <2>7, RecurseLevels DEF Half, n1, n2
  <2>9. /\ Len(stack') = Len(stack) + 1
        /\ \A j \in 1..(Len(stack) - 1) : stack'[j] = stack[j]
    BY <1>1, <1>8, <1>12, <2>0, RecurseType DEF Phase
  <2>10. \A n \in Value : aliasclass[n] = {} => /\ ToNodeMap'[n] = NoNode
                                                /\ FromNodeMap[n] = NoNode => FromNodeMap'[n] = NoNode
    BY <1>7, <2>3
  <2>11. Emptied'
    BY <1>1, <1>2, <1>3, <2>7, <2>9, <2>10, EmptiedKept DEF n1
  <2> QED BY <1>4, <2>2, <2>4, <2>8, <2>11 DEF LevelInv, Half
<1>13. \/ (m1 = NoNode \/ m1 = m2) /\ Pop /\ UNCHANGED <<ToNodeMap, FromNodeMap>>
       \/ /\ m1 # NoNode /\ m2 = NoNode
          /\ FromNodeMap' = MovedEdge(FromNodeMap, n1, n2)
          /\ ToNodeMap' = [ToNodeMap EXCEPT ![m1] = n2]
          /\ Pop
       \/ /\ m1 # NoNode /\ m2 # NoNode /\ m1 # m2
          /\ FromNodeMap' = Erased(FromNodeMap, n1, n2)
          /\ ToNodeMap' = Erased(ToNodeMap, m1, m2)
          /\ Recurse("fromReturn", m1, m2)
  BY DEF MergeFrom
<1> HIDE DEF m1, m2, n1, n2
<1> QED BY <1>6, <1>10, <1>11, <1>12, <1>13

\* The edge put back goes between live nodes, to places nothing has taken.
LEMMA ReturnLevels ==
  ASSUME NEW lvl, Levelled(lvl), TypeOK, LevelInv(lvl), MergeToReturn \/ MergeFromReturn
  PROVE  LevelInv(lvl)'
<1> DEFINE n2 == top.n2
           m2 == top.m2
<1>1. stack # <<>> /\ UNCHANGED <<NodeMap, aliasclass>>
  BY DEF MergeToReturn, MergeFromReturn, Running
<1>2. /\ FramesOK(lvl) /\ Agree(ToNodeMap, FromNodeMap) /\ Falling(ToNodeMap, lvl) /\ Emptied
  BY DEF LevelInv
<1>3. PICK half \in Half : Chained(half, lvl)
  BY DEF LevelInv
<1>4. /\ Len(stack) \in Nat \ {0} /\ top.n1 \in Value /\ n2 \in Value /\ lvl[n2] \in Nat
      /\ FrameOK(top, ToNodeMap, FromNodeMap, aliasclass, lvl)
  BY <1>1, <1>2, TopOK
<1>5. ToNodeMap \in EdgeMap /\ FromNodeMap \in EdgeMap /\ NodesLevelled(lvl)' /\ stack \in Seq(Frame)
  BY <1>1 DEF TypeOK, EdgeMap, LevelInv, NodesLevelled
<1>6. top.at \in Half => /\ m2 \in Value /\ lvl[m2] \in Nat
                         /\ lvl[top.n1] = lvl[n2] /\ top.n1 # n2
                         /\ aliasclass[n2] # {} /\ aliasclass[m2] # {}
  BY <1>4 DEF FrameOK, Half, Levelled
<1>7. CASE MergeToReturn
  <2>1. top.at = "toReturn" /\ AddEdge(n2, m2) /\ GoOn("from") /\ half = "toReturn"
    BY <1>1, <1>3, <1>7 DEF MergeToReturn, Running, Chained, Half
  <2>2. m2 \in Value /\ lvl[n2] = lvl[m2] + 1 /\ ToNodeMap[n2] = NoNode /\ FromNodeMap[m2] = NoNode
    BY <1>4, <1>6, <2>1 DEF FrameOK, Reserved, Half
  <2>3. ToNodeMap' = [ToNodeMap EXCEPT ![n2] = m2] /\ FromNodeMap' = [FromNodeMap EXCEPT ![m2] = n2]
    BY <2>1 DEF AddEdge
  <2> HIDE DEF n2, m2
  <2>4. Agree(ToNodeMap', FromNodeMap')
    BY <1>2, <1>4, <1>5, <2>2, <2>3, AddedAgree
  <2>5. /\ \A n \in Value : ToNodeMap'[n] = IF n = n2 THEN m2 ELSE ToNodeMap[n]
        /\ \A n \in Value : FromNodeMap'[n] = IF n = m2 THEN n2 ELSE FromNodeMap[n]
    BY <1>5, <2>3 DEF EdgeMap
  <2>6. Falling(ToNodeMap', lvl)
    BY <1>2, <2>2, <2>5 DEF Falling
  <2>7. \A n \in Value : /\ ToNodeMap'[n] = ToNodeMap[n] \/ lvl[n] <= lvl[n2]
                         /\ FromNodeMap'[n] = FromNodeMap[n] \/ lvl[n] < lvl[n2]
    BY <1>4, <1>6, <2>1, <2>2, <2>5 DEF Half
  <2>8. BelowOK(lvl)
    BY <1>1, <1>2, <1>3, <2>1, <2>7, BelowKept DEF BelowOK, Half, n2
  <2>9. FramesOK(lvl)' /\ Chained(half, lvl)'
    BY <1>1, <1>3, <1>5, <1>6, <2>1, <2>8, GoOnLevels DEF Half, n2
  <2>10. /\ Len(stack') = Len(stack)
         /\ \A j \in 1..(Len(stack) - 1) : stack'[j] = stack[j]
         /\ top'.at = "from" /\ top'.n1 = top.n1
    BY <1>1, <1>5, <2>1, GoOnAt DEF Phase
  <2>11. stack'[Len(stack)].at = "from" /\ stack'[Len(stack)].n1 = top.n1
    BY <2>10 DEF top
  <2>12. \A n \in Value : aliasclass[n] = {} => /\ ToNodeMap'[n] = NoNode
                                                /\ FromNodeMap[n] = NoNode => FromNodeMap'[n] = NoNode
    BY <1>2, <1>6, <2>1, <2>5 DEF Emptied, Half
  <2>13. Emptied'
    BY <1>1, <1>2, <1>4, <2>10, <2>11, <2>12, EmptiedKept
  <2> QED BY <1>3, <1>5, <2>4, <2>6, <2>9, <2>13 DEF LevelInv
<1>8. CASE MergeFromReturn
  <2>1. top.at = "fromReturn" /\ AddEdge(m2, n2) /\ Pop /\ half = "fromReturn"
    BY <1>1, <1>3, <1>8 DEF MergeFromReturn, Running, Chained, Half
  <2>2. m2 \in Value /\ lvl[m2] = lvl[n2] + 1 /\ FromNodeMap[n2] = NoNode /\ ToNodeMap[m2] = NoNode
    BY <1>4, <1>6, <2>1 DEF FrameOK, Reserved, Half
  <2>3. ToNodeMap' = [ToNodeMap EXCEPT ![m2] = n2] /\ FromNodeMap' = [FromNodeMap EXCEPT ![n2] = m2]
    BY <2>1 DEF AddEdge
  <2> HIDE DEF n2, m2
  <2>4. Agree(ToNodeMap', FromNodeMap')
    BY <1>2, <1>4, <1>5, <2>2, <2>3, AddedAgree
  <2>5. /\ \A n \in Value : ToNodeMap'[n] = IF n = m2 THEN n2 ELSE ToNodeMap[n]
        /\ \A n \in Value : FromNodeMap'[n] = IF n = n2 THEN m2 ELSE FromNodeMap[n]
    BY <1>5, <2>3 DEF EdgeMap
  <2>6. Falling(ToNodeMap', lvl)
    BY <1>2, <2>2, <2>5 DEF Falling
  <2>7. \A n \in Value : /\ FromNodeMap'[n] = FromNodeMap[n] \/ lvl[n] >= lvl[n2]
                         /\ ToNodeMap'[n] = ToNodeMap[n] \/ lvl[n] > lvl[n2]
    BY <1>4, <1>6, <2>1, <2>2, <2>5 DEF Half
  <2>8. BelowOK(lvl)
    BY <1>1, <1>2, <1>3, <2>1, <2>7, BelowKept DEF BelowOK, Half, n2
  <2>9. FramesOK(lvl)' /\ Chained(half, lvl)'
    BY <1>1, <1>3, <2>1, <2>8, PopLevels
  <2>10. /\ Len(stack') = Len(stack) - 1
         /\ \A j \in 1..(Len(stack) - 1) : stack'[j] = stack[j]
    BY <1>1, <1>5, <2>1, PopType
  <2>11. \A n \in Value : aliasclass[n] = {} => /\ ToNodeMap'[n] = NoNode
                                                /\ FromNodeMap[n] = NoNode => FromNodeMap'[n] = NoNode
    BY <1>2, <1>6, <2>1, <2>5 DEF Emptied, Half
  <2>12. Emptied'
    BY <1>1, <1>2, <1>4, <2>1, <2>10, <2>11, EmptiedKept
  <2> QED BY <1>3, <1>5, <2>4, <2>6, <2>9, <2>12 DEF LevelInv
<1> QED BY <1>7, <1>8

-----------------------------------------------------------------------------
(* The handlers, which find no merge in progress. *)

StayLive == \A n \in Value : aliasclass[n] # {} => aliasclass'[n] # {}

LEMMA Quiescent ==
  ASSUME NEW lvl, TypeOK, LevelInv(lvl), stack = <<>>
  PROVE  \A n \in Value :
           /\ ToNodeMap[n] # NoNode =>
                /\ ToNodeMap[n] \in Value /\ FromNodeMap[ToNodeMap[n]] = n
                /\ aliasclass[n] # {} /\ aliasclass[ToNodeMap[n]] # {}
                /\ lvl[n] = lvl[ToNodeMap[n]] + 1
           /\ FromNodeMap[n] # NoNode =>
                /\ FromNodeMap[n] \in Value /\ ToNodeMap[FromNodeMap[n]] = n
                /\ aliasclass[n] # {} /\ aliasclass[FromNodeMap[n]] # {}
                /\ lvl[FromNodeMap[n]] = lvl[n] + 1
<1>1. Len(stack) = 0
  OBVIOUS
<1>2. \A n \in Value : aliasclass[n] = {} => ToNodeMap[n] = NoNode /\ FromNodeMap[n] = NoNode
  BY <1>1 DEF LevelInv, Emptied
<1>3. \A n, m \in Value : ToNodeMap[n] = m <=> FromNodeMap[m] = n
  BY DEF LevelInv, Agree
<1>4. \A n \in Value : n # NoNode
  BY ValueAssumption
<1>5. ASSUME NEW n \in Value, ToNodeMap[n] # NoNode
      PROVE  /\ ToNodeMap[n] \in Value /\ FromNodeMap[ToNodeMap[n]] = n
             /\ aliasclass[n] # {} /\ aliasclass[ToNodeMap[n]] # {}
             /\ lvl[n] = lvl[ToNodeMap[n]] + 1
  <2>1. ToNodeMap[n] \in Value
    BY <1>5 DEF TypeOK
  <2>2. FromNodeMap[ToNodeMap[n]] = n
    BY <1>3, <2>1
  <2>3. lvl[n] = lvl[ToNodeMap[n]] + 1
    BY <1>5 DEF LevelInv, Falling
  <2> QED BY <1>2, <1>4, <1>5, <2>1, <2>2, <2>3
<1>6. ASSUME NEW n \in Value, FromNodeMap[n] # NoNode
      PROVE  /\ FromNodeMap[n] \in Value /\ ToNodeMap[FromNodeMap[n]] = n
             /\ aliasclass[n] # {} /\ aliasclass[FromNodeMap[n]] # {}
             /\ lvl[FromNodeMap[n]] = lvl[n] + 1
  <2>1. FromNodeMap[n] \in Value
    BY <1>6 DEF TypeOK
  <2>2. ToNodeMap[FromNodeMap[n]] = n
    BY <1>3, <2>1
  <2>3. lvl[FromNodeMap[n]] = lvl[n] + 1
    BY <1>4, <2>1, <2>2 DEF LevelInv, Falling
  <2> QED BY <1>2, <1>4, <1>6, <2>1, <2>2, <2>3
<1> QED BY <1>5, <1>6

LEMMA NothingLevels ==
  ASSUME NEW lvl, TypeOK, LevelInv(lvl), stack = <<>>, StayLive, NodesLevelled(lvl)',
         UNCHANGED <<ToNodeMap, FromNodeMap, stack>>
  PROVE  LevelInv(lvl)'
<1>1. Len(stack') = 0 /\ stack' = <<>>
  OBVIOUS
<1>2. FramesOK(lvl)' /\ Chained("toReturn", lvl)'
  BY <1>1 DEF FramesOK, Chained
<1>3. Emptied'
  <2>1. \A n \in Value : aliasclass'[n] = {} => ToNodeMap[n] = NoNode /\ FromNodeMap[n] = NoNode
    BY Quiescent DEF StayLive
  <2> QED BY <2>1 DEF Emptied
<1>4. Agree(ToNodeMap', FromNodeMap') /\ Falling(ToNodeMap', lvl)
  BY DEF LevelInv
<1> QED BY <1>2, <1>3, <1>4 DEF LevelInv, Half

LEMMA PushLevels ==
  ASSUME NEW lvl, TypeOK, LevelInv(lvl), stack = <<>>, StayLive, NodesLevelled(lvl)',
         UNCHANGED <<ToNodeMap, FromNodeMap>>,
         NEW n1 \in Value, NEW n2 \in Value, mergeNode(n1, n2),
         lvl[n1] = lvl[n2], aliasclass'[n1] # {}, aliasclass'[n2] # {}
  PROVE  LevelInv(lvl)'
<1>1. stack' = <<Activation(n1, n2, "enter", NoNode, NoNode)>>
  BY DEF mergeNode
<1>2. Len(stack') = 1 /\ stack'[1] = Activation(n1, n2, "enter", NoNode, NoNode) /\ top' = stack'[1]
  BY <1>1 DEF top
<1>3. FrameOK(stack'[1], ToNodeMap', FromNodeMap', aliasclass', lvl)
  BY <1>2 DEF FrameOK, Activation, Half
<1>4. FramesOK(lvl)'
  BY <1>2, <1>3 DEF FramesOK
<1>5. Chained("toReturn", lvl)'
  BY <1>2 DEF Chained, Activation, Half
<1>6. Emptied'
  <2>1. \A n \in Value : aliasclass'[n] = {} => ToNodeMap[n] = NoNode /\ FromNodeMap[n] = NoNode
    BY Quiescent DEF StayLive
  <2> QED BY <2>1 DEF Emptied
<1>7. Agree(ToNodeMap', FromNodeMap') /\ Falling(ToNodeMap', lvl)
  BY DEF LevelInv
<1> QED BY <1>4, <1>5, <1>6, <1>7 DEF LevelInv, Half

LEMMA AddEdgeLevels ==
  ASSUME NEW lvl, TypeOK, LevelInv(lvl), stack = <<>>, StayLive, NodesLevelled(lvl)',
         UNCHANGED stack, NEW n1 \in Value, NEW n2 \in Value, AddEdge(n2, n1),
         ToNodeMap[n2] = NoNode, FromNodeMap[n1] = NoNode,
         lvl[n2] = lvl[n1] + 1, aliasclass'[n1] # {}, aliasclass'[n2] # {}
  PROVE  LevelInv(lvl)'
<1>1. Len(stack') = 0 /\ stack' = <<>>
  OBVIOUS
<1>2. FramesOK(lvl)' /\ Chained("toReturn", lvl)'
  BY <1>1 DEF FramesOK, Chained
<1>3. ToNodeMap' = [ToNodeMap EXCEPT ![n2] = n1] /\ FromNodeMap' = [FromNodeMap EXCEPT ![n1] = n2]
  BY DEF AddEdge
<1>4. ToNodeMap \in EdgeMap /\ FromNodeMap \in EdgeMap
  BY DEF TypeOK, EdgeMap
<1>5. Agree(ToNodeMap', FromNodeMap')
  BY <1>3, <1>4, AddedAgree DEF LevelInv
<1>6. /\ \A n \in Value : ToNodeMap'[n] = IF n = n2 THEN n1 ELSE ToNodeMap[n]
      /\ \A n \in Value : FromNodeMap'[n] = IF n = n1 THEN n2 ELSE FromNodeMap[n]
  BY <1>3, <1>4 DEF EdgeMap
<1>7. Falling(ToNodeMap', lvl)
  BY <1>6 DEF LevelInv, Falling
<1>8. Emptied'
  <2>1. \A n \in Value : aliasclass'[n] = {} => ToNodeMap[n] = NoNode /\ FromNodeMap[n] = NoNode
    BY Quiescent DEF StayLive
  <2>2. \A n \in Value : aliasclass'[n] = {} => ToNodeMap'[n] = NoNode /\ FromNodeMap'[n] = NoNode
    BY <1>6, <2>1
  <2> QED BY <2>2 DEF Emptied
<1> QED BY <1>2, <1>5, <1>7, <1>8 DEF LevelInv, Half

LEMMA CreatedLevels ==
  ASSUME NEW lvl, Inv, Inv', NodesLevelled(lvl), NEW S \in SUBSET Value, CreateNodes(S)
  PROVE  /\ NodesLevelled(lvl)' /\ StayLive
         /\ \A v \in S : /\ NodeMapWith(S)[v] \in Value
                         /\ aliasclass'[NodeMapWith(S)[v]] # {}
                         /\ lvl[NodeMapWith(S)[v]] = lvl[v]
<1>1. NodeMap' = NodeMapWith(S) /\ aliasclass' = ClassesWith(S)
  BY DEF CreateNodes
<1>2. \A v \in Value : NodeMap'[v] = IF v \in S /\ NodeMap[v] = NoNode THEN v ELSE NodeMap[v]
  BY <1>1 DEF NodeMapWith
<1>3. NodesLevelled(lvl)'
  BY <1>2 DEF NodesLevelled
<1>4. StayLive
  BY <1>1 DEF ClassesWith, StayLive
<1>5. \A v \in S : NodeMap'[v] \in Value
  BY <1>1, NodeMapWithType DEF Inv
<1>6. \A v \in S : aliasclass'[NodeMap'[v]] # {}
  <2>1. \A v, n \in Value : NodeMap'[v] = n <=> v \in aliasclass'[n]
    BY DEF Inv, Partition
  <2> SUFFICES ASSUME NEW v \in S, NEW n, n = NodeMap'[v] PROVE aliasclass'[n] # {}
    OBVIOUS
  <2>2. v \in Value /\ n \in Value
    BY <1>5
  <2> QED BY <2>1, <2>2
<1>7. \A v \in S : lvl[NodeMap'[v]] = lvl[v]
  BY <1>3, <1>5, ValueAssumption DEF NodesLevelled
<1> QED BY <1>1, <1>3, <1>4, <1>5, <1>6, <1>7

LEMMA PointToLevels ==
  ASSUME NEW lvl, TypeOK, LevelInv(lvl), Levelled(lvl), stack = <<>>, StayLive, NodesLevelled(lvl)',
         NEW n1 \in Value, NEW n2 \in Value, PointTo(n1, n2),
         lvl[n2] = lvl[n1] + 1, aliasclass'[n1] # {}, aliasclass'[n2] # {}
  PROVE  LevelInv(lvl)'
<1>0. \A n \in Value : lvl[n] \in Nat
  BY DEF Levelled
<1>1. CASE ToNodeMap[n2] # NoNode /\ mergeNode(n1, ToNodeMap[n2]) /\ UNCHANGED <<ToNodeMap, FromNodeMap>>
  <2>1. /\ ToNodeMap[n2] \in Value /\ aliasclass[ToNodeMap[n2]] # {}
        /\ lvl[n2] = lvl[ToNodeMap[n2]] + 1
    BY <1>1, Quiescent
  <2>2. aliasclass'[ToNodeMap[n2]] # {} /\ lvl[n1] = lvl[ToNodeMap[n2]]
    BY <1>0, <2>1 DEF StayLive
  <2> QED BY <1>1, <2>1, <2>2, PushLevels
<1>2. CASE FromNodeMap[n1] # NoNode /\ mergeNode(FromNodeMap[n1], n2) /\ UNCHANGED <<ToNodeMap, FromNodeMap>>
  <2>1. /\ FromNodeMap[n1] \in Value /\ aliasclass[FromNodeMap[n1]] # {}
        /\ lvl[FromNodeMap[n1]] = lvl[n1] + 1
    BY <1>2, Quiescent
  <2>2. aliasclass'[FromNodeMap[n1]] # {} /\ lvl[FromNodeMap[n1]] = lvl[n2]
    BY <2>1 DEF StayLive
  <2> QED BY <1>2, <2>1, <2>2, PushLevels
<1>3. CASE ToNodeMap[n2] = NoNode /\ FromNodeMap[n1] = NoNode /\ AddEdge(n2, n1) /\ UNCHANGED stack
  BY <1>3, AddEdgeLevels
<1> QED BY <1>1, <1>2, <1>3 DEF PointTo

LEMMA StoreLevels ==
  ASSUME NEW lvl, Inv, Inv', LevelInv(lvl), Levelled(lvl), stack = <<>>,
         NEW v1 \in Value, NEW v2 \in Value, StoreInto(v1, v2), lvl[v2] = lvl[v1] + 1
  PROVE  LevelInv(lvl)'
<1> DEFINE T == {v1, v2}
           n1 == NodeMapWith(T)[v1]
           n2 == NodeMapWith(T)[v2]
<1>1. CreateNodes(T) /\ (UNCHANGED <<ToNodeMap, FromNodeMap, stack>> \/ PointTo(n1, n2))
  BY DEF StoreInto
<1>2. TypeOK /\ NodesLevelled(lvl) /\ T \in SUBSET Value /\ v1 \in T /\ v2 \in T
  BY DEF Inv, LevelInv
<1> HIDE DEF T
<1>3. /\ NodesLevelled(lvl)' /\ StayLive
      /\ n1 \in Value /\ aliasclass'[n1] # {} /\ lvl[n1] = lvl[v1]
      /\ n2 \in Value /\ aliasclass'[n2] # {} /\ lvl[n2] = lvl[v2]
  BY <1>1, <1>2, CreatedLevels
<1> HIDE DEF n1, n2
<1> QED BY <1>1, <1>2, <1>3, NothingLevels, PointToLevels

LEMMA MoveLevels ==
  ASSUME NEW lvl, Inv, Inv', LevelInv(lvl), Levelled(lvl), stack = <<>>,
         NEW v1 \in Value, NEW v2 \in Value, NEW S \in SUBSET Value, Move(v1, v2, S),
         lvl[v1] = lvl[v2]
  PROVE  LevelInv(lvl)'
<1> DEFINE T == S \cup {v2}
           nodes == NodeMapWith(T)
           classes == ClassesWith(T)
           n1 == nodes[v1]
           n2 == nodes[v2]
<1>1. TypeOK /\ NodesLevelled(lvl) /\ T \in SUBSET Value /\ UNCHANGED <<ToNodeMap, FromNodeMap>>
  BY DEF Inv, LevelInv, Move
<1>2. /\ nodes \in [Value -> Value \cup {NoNode}] /\ n2 \in Value
      /\ classes \in [Value -> SUBSET Value]
  BY <1>1, NodeMapWithType
<1>3. \A v \in Value : nodes[v] # NoNode => lvl[nodes[v]] = lvl[v]
  BY <1>1 DEF NodeMapWith, NodesLevelled
<1>4. \A n \in Value : aliasclass[n] # {} => classes[n] # {}
  BY DEF ClassesWith
<1>5. n2 # NoNode /\ lvl[n2] = lvl[v2]
  BY <1>2, <1>3, ValueAssumption
<1>6. CASE /\ n1 = NoNode
           /\ NodeMap' = [nodes EXCEPT ![v1] = n2]
           /\ aliasclass' = [classes EXCEPT ![n2] = @ \cup {v1}]
           /\ UNCHANGED stack
  <2> HIDE DEF nodes, classes, n1, n2, T
  <2>1. NodesLevelled(lvl)'
    BY <1>2, <1>3, <1>5, <1>6 DEF NodesLevelled
  <2>2. StayLive
    BY <1>2, <1>4, <1>6 DEF StayLive
  <2> QED BY <1>1, <1>6, <2>1, <2>2, NothingLevels
<1>7. CASE CreateNodes(T) /\ UNCHANGED stack
  <2>1. NodesLevelled(lvl)' /\ StayLive
    BY <1>1, <1>7, CreatedLevels
  <2> QED BY <1>1, <1>7, <2>1, NothingLevels
<1>8. CASE n1 # NoNode /\ CreateNodes(T) /\ mergeNode(n1, n2)
  <2>1. v2 \in T /\ n2 = NodeMapWith(T)[v2] /\ NodeMap' = nodes
    BY <1>8 DEF CreateNodes
  <2> HIDE DEF nodes, classes, n1, n2, T
  <2>2. n1 = nodes[v1]
    BY DEF n1
  <2>3. NodesLevelled(lvl)' /\ StayLive /\ aliasclass'[n2] # {}
    BY <1>1, <1>2, <1>8, <2>1, CreatedLevels
  <2>4. n1 \in Value /\ lvl[n1] = lvl[v1]
    BY <1>2, <1>3, <1>8, <2>2
  <2>5. v1 \in aliasclass'[n1]
    <3>1. \A v, n \in Value : NodeMap'[v] = n <=> v \in aliasclass'[n]
      BY DEF Inv, Partition
    <3> QED BY <2>1, <2>2, <2>4, <3>1
  <2> QED BY <1>1, <1>2, <1>5, <1>8, <2>3, <2>4, <2>5, PushLevels
<1> QED BY <1>6, <1>7, <1>8 DEF Move

LEMMA HandlerLevels ==
  ASSUME NEW lvl, Levelled(lvl), Inv, Inv', LevelInv(lvl), NEW i \in Calls, HandleInst(i)
  PROVE  LevelInv(lvl)'
<1>1. stack = <<>>
  BY DEF HandleInst, HandleAlloc, HandleLoad, HandleStoreInst, HandleStore, HandleMove,
         HandleReturnInst, HandleCai, Handle
<1>2. TypeOK /\ NodesLevelled(lvl)
  BY DEF Inv, LevelInv
<1>3. ASSUME SkipStore PROVE LevelInv(lvl)'
  <2>1. UNCHANGED <<NodeMap, aliasclass, ToNodeMap, FromNodeMap, stack>>
    BY <1>3 DEF SkipStore, graph
  <2>2. StayLive /\ NodesLevelled(lvl)'
    BY <1>2, <2>1 DEF StayLive, NodesLevelled
  <2> QED BY <1>1, <1>2, <2>1, <2>2, NothingLevels
<1>4. ASSUME NEW S \in SUBSET Value, CreateNodes(S), UNCHANGED <<ToNodeMap, FromNodeMap, stack>>
      PROVE  LevelInv(lvl)'
  BY <1>1, <1>2, <1>4, CreatedLevels, NothingLevels
<1>5. /\ i.op = "load" => lvl[i.v2] = lvl[i.v1] + 1
      /\ i.op \in {"store", "init"} => i.v1 \in ConstantData \/ lvl[i.v2] = lvl[i.v1] + 1
      /\ i.op \in {"move", "ret", "copycall"} => lvl[i.v1] = lvl[i.v2]
      /\ i.op = "symbol_get" => lvl[i.cai] = lvl[i.f]
  BY DEF Levelled
<1>6. CASE HandleAlloc(i)
  <2>1. {i.v1} \in SUBSET Value /\ CreateNodes({i.v1}) /\ UNCHANGED <<ToNodeMap, FromNodeMap, stack>>
    BY <1>6, CallFields DEF HandleAlloc
  <2> QED BY <1>4, <2>1
<1>7. CASE HandleLoad(i)
  <2> DEFINE T == {i.v1, i.v2}
             n1 == NodeMapWith(T)[i.v1]
             n2 == NodeMapWith(T)[i.v2]
  <2>1. /\ i.v1 \in Value /\ i.v2 \in Value /\ CreateNodes(T) /\ PointTo(n1, n2)
        /\ i.op = "load" /\ T \in SUBSET Value /\ i.v1 \in T /\ i.v2 \in T
    BY <1>7, CallFields DEF HandleLoad
  <2>2. lvl[i.v2] = lvl[i.v1] + 1
    BY <1>5, <2>1
  <2> HIDE DEF T
  <2>3. /\ NodesLevelled(lvl)' /\ StayLive
        /\ n1 \in Value /\ aliasclass'[n1] # {} /\ lvl[n1] = lvl[i.v1]
        /\ n2 \in Value /\ aliasclass'[n2] # {} /\ lvl[n2] = lvl[i.v2]
    BY <1>2, <2>1, CreatedLevels
  <2> HIDE DEF n1, n2
  <2> QED BY <1>1, <1>2, <2>1, <2>2, <2>3, PointToLevels
<1>8. CASE HandleStoreInst(i)
  <2>1. i.op = "store" /\ i.v1 \in Value /\ i.v2 \in Value
    BY <1>8, CallFields DEF HandleStoreInst
  <2>2. SkipStore \/ (i.v1 \notin ConstantData /\ StoreInto(i.v1, i.v2))
    BY <1>8 DEF HandleStoreInst
  <2> QED BY <1>1, <1>3, <1>5, <2>1, <2>2, StoreLevels
<1>9. CASE HandleStore(i)
  <2>1. i.op = "init" /\ i.v1 \in Value /\ i.v2 \in Value
    BY <1>9, CallFields DEF HandleStore
  <2>2. SkipStore \/ (i.v1 \notin ConstantData /\ StoreInto(i.v1, i.v2))
    BY <1>9 DEF HandleStore
  <2> QED BY <1>1, <1>3, <1>5, <2>1, <2>2, StoreLevels
<1>10. CASE HandleMove(i)
  <2>1. i.op = "move" /\ i.v1 \in Value /\ i.v2 \in Value /\ Move(i.v1, i.v2, {})
    BY <1>10, CallFields DEF HandleMove
  <2> QED BY <1>1, <1>5, <2>1, MoveLevels
<1>11. CASE HandleReturnInst(i)
  <2>1. i.op = "ret" /\ i.v1 \in Value /\ i.v2 \in Value
    BY <1>11, CallFields DEF HandleReturnInst
  <2>2. SkipStore \/ Move(i.v1, i.v2, {})
    BY <1>11 DEF HandleReturnInst
  <2> QED BY <1>1, <1>3, <1>5, <2>1, <2>2, MoveLevels
<1>12. CASE HandleCai(i)
  <2> DEFINE T == {i.cai} \cup i.args
  <2>1. CASE i.op = "call" /\ CreateNodes(T) /\ UNCHANGED <<TBAATag, ToNodeMap, FromNodeMap, symbolGet, blockedMerges, stack>>
    <3>1. T \in SUBSET Value
      BY <2>1, CallFields
    <3> HIDE DEF T
    <3> QED BY <1>4, <2>1, <3>1
  <2>2. CASE i.op = "copycall" /\ Move(i.v1, i.v2, T)
    <3>1. T \in SUBSET Value /\ i.v1 \in Value /\ i.v2 \in Value
      BY <2>2, CallFields
    <3> HIDE DEF T
    <3> QED BY <1>1, <1>5, <2>2, <3>1, MoveLevels
  <2>3. CASE i.op = "symbol_get" /\ Move(i.cai, i.f, T)
    <3>1. T \in SUBSET Value /\ i.cai \in Value /\ i.f \in Value
      BY <2>3, CallFields, ValueAssumption
    <3> HIDE DEF T
    <3> QED BY <1>1, <1>5, <2>3, <3>1, MoveLevels
  <2> QED BY <1>12, <2>1, <2>2, <2>3 DEF HandleCai
<1> QED BY <1>6, <1>7, <1>8, <1>9, <1>10, <1>11, <1>12 DEF HandleInst

-----------------------------------------------------------------------------
(* The theorems. *)

LEMMA LevelStep ==
  ASSUME NEW lvl, Levelled(lvl)
  PROVE  Inv /\ Inv' /\ LevelInv(lvl) /\ [Next]_vars => LevelInv(lvl)'
<1> SUFFICES ASSUME Inv, Inv', LevelInv(lvl), [Next]_vars
             PROVE  LevelInv(lvl)'
  OBVIOUS
<1>1. TypeOK
  BY DEF Inv
<1>2. CASE Merge
  BY <1>1, <1>2, BlockedLevels, ValuesLevels, ToLevels, FromLevels, ReturnLevels DEF Merge
<1>3. CASE UNCHANGED vars
  <2>1. UNCHANGED <<NodeMap, aliasclass, ToNodeMap, FromNodeMap, stack>>
    BY <1>3 DEF vars, graph
  <2> QED BY <2>1 DEF LevelInv, NodesLevelled, FramesOK, Chained, Emptied, top
<1> QED BY <1>2, <1>3, HandlerLevels DEF Next

LEMMA LevelInit ==
  ASSUME NEW lvl
  PROVE  Init => LevelInv(lvl)
<1> SUFFICES ASSUME Init PROVE LevelInv(lvl)
  OBVIOUS
<1>1. /\ \A n \in Value : ToNodeMap[n] = NoNode /\ FromNodeMap[n] = NoNode /\ NodeMap[n] = NoNode
      /\ Len(stack) = 0 /\ stack = <<>>
  BY DEF Init
<1>2. Agree(ToNodeMap, FromNodeMap) /\ Falling(ToNodeMap, lvl) /\ NodesLevelled(lvl) /\ Emptied
  BY <1>1, ValueAssumption DEF Agree, Falling, NodesLevelled, Emptied
<1>3. FramesOK(lvl) /\ Chained("toReturn", lvl)
  BY <1>1 DEF FramesOK, Chained
<1> QED BY <1>2, <1>3 DEF LevelInv, Half

\* At every step of every merge in a program with pointer levels: the edge maps
\* are inverse, edges go one level down, a frame that waits keeps the places of
\* the edges it will put back free, and only a node that is being merged away has
\* edges without values.
THEOREM LevelInvariant ==
  ASSUME NEW CONSTANT lvl, Levelled(lvl)
  PROVE  Spec => []LevelInv(lvl)
<1>1. Inv /\ Inv' /\ LevelInv(lvl) /\ [Next]_vars => LevelInv(lvl)'
  BY LevelStep
<1>2. Init => LevelInv(lvl)
  BY LevelInit
<1> QED BY <1>1, <1>2, Invariance, PTL DEF Spec

\* In a program with pointer levels the two edge maps are inverse whenever no
\* merge is in progress, however many merges were nested and blocked.
THEOREM EdgeMapsAlwaysAgree ==
  ASSUME NEW CONSTANT lvl, Levelled(lvl)
  PROVE  Spec => []EdgeMapsAgree
<1>1. LevelInv(lvl) => EdgeMapsAgree
  BY DEF LevelInv, Agree, EdgeMapsAgree
<1> QED BY <1>1, LevelInvariant, PTL

\* In a program with pointer levels no edge leads to or from a node without
\* values whenever no merge is in progress.
THEOREM EdgesAlwaysJoinLiveNodes ==
  ASSUME NEW CONSTANT lvl, Levelled(lvl)
  PROVE  Spec => []EdgesJoinLiveNodes
<1>1. Inv /\ LevelInv(lvl) => EdgesJoinLiveNodes
  <2> SUFFICES ASSUME Inv, LevelInv(lvl), stack = <<>>, NEW n \in Value
               PROVE  /\ ToNodeMap[n] # NoNode => Live(n) /\ Live(ToNodeMap[n])
                      /\ FromNodeMap[n] # NoNode => Live(n) /\ Live(FromNodeMap[n])
    BY DEF EdgesJoinLiveNodes, Quiet
  <2>1. TypeOK
    BY DEF Inv
  <2> QED BY <2>1, Quiescent DEF Live
<1> QED BY <1>1, LevelInvariant, Invariance, PTL

-----------------------------------------------------------------------------
(***************************************************************************)
(* What the loads, stores and copies of such a program can rely on: the    *)
(* pointer of each load or store points to the class of its value, and     *)
(* each copy is in the class of its source, however many merges followed   *)
(* it.  The last part says when the classes of one context lie inside      *)
(* those of another one that handled the same calls.                       *)
(*                                                                         *)
(* While merges are in progress the edge of an access may be missing: it   *)
(* was erased and is to be put back, or it was moved to a node that is     *)
(* about to be merged.  The invariant says for each access which           *)
(* activation still has to make its edge, and the lemmas follow that debt  *)
(* through the steps of mergeNode.                                         *)
(***************************************************************************)


-----------------------------------------------------------------------------
(* Accesses. *)

\* A load or store the context handled, and the pair of nodes it connects.
Accesses(i) == i.op = "load" \/ (i.op \in {"store", "init"} /\ i.v1 \notin ConstantData)
Access(i) == i \in done /\ Accesses(i)

\* What a frame still has to do for a pointer in node n and its target in node m:
\* an edge of n1 becomes n2's, an erased edge is put back, or a merge that a
\* handler asked for makes the edge that is there lead to m.
Owes(fr, to, from, n, m) ==
  \/ fr.at = "enter" /\ m = fr.n1 /\ to[n] = fr.n2
  \/ fr.at \in {"enter", "to"} /\ n = fr.n2 /\ to[fr.n1] = m
  \/ fr.at \in {"to", "toReturn", "from"} /\ m = fr.n2 /\ from[fr.n1] = n
  \/ fr.at = "toReturn" /\ n = fr.n2 /\ m \in {fr.m1, fr.m2}
  \/ fr.at = "fromReturn" /\ m = fr.n2 /\ n \in {fr.m1, fr.m2}

Held(st, to, from, n, m) ==
  to[n] = m \/ \E j \in 1..Len(st) : Owes(st[j], to, from, n, m)

\* A frame's first node is empty once its values are merged, and so is the first
\* node of a merge it called, when that returns without having been blocked.
Merged ==
  /\ \A j \in 1..Len(stack) :
       /\ stack[j].at # "enter" => aliasclass[stack[j].n1] = {}
       /\ stack[j].at \in Half => stack[j].m1 # stack[j].m2
  /\ blockedMerges = 0 /\ stack # <<>> /\ top.at \in Half => aliasclass[top.m1] = {}

Known == \A i \in Calls : Access(i) => NodeMap[i.v1] \in Value /\ NodeMap[i.v2] \in Value

AllHeld ==
  \A i \in Calls : Access(i) => Held(stack, ToNodeMap, FromNodeMap, NodeMap[i.v2], NodeMap[i.v1])

AccessInv == Merged /\ Known /\ (blockedMerges = 0 => AllHeld)

\* The nodes of an access hold values and are a level apart.
LEMMA AccessNodes ==
  ASSUME NEW lvl, Levelled(lvl), Inv, NodesLevelled(lvl), Known, NEW i \in Calls, Access(i)
  PROVE  /\ NodeMap[i.v1] \in Value /\ NodeMap[i.v2] \in Value
         /\ i.v1 \in Value /\ i.v2 \in Value
         /\ lvl[NodeMap[i.v2]] = lvl[NodeMap[i.v1]] + 1
         /\ aliasclass[NodeMap[i.v1]] # {} /\ aliasclass[NodeMap[i.v2]] # {}
<1>1. i.v1 \in Value /\ i.v2 \in Value /\ lvl[i.v2] = lvl[i.v1] + 1
  BY CallFields DEF Access, Accesses, Levelled
<1>2. NodeMap[i.v1] \in Value /\ NodeMap[i.v2] \in Value
  BY DEF Known
<1>3. lvl[NodeMap[i.v1]] = lvl[i.v1] /\ lvl[NodeMap[i.v2]] = lvl[i.v2]
  BY <1>1, <1>2, ValueAssumption DEF NodesLevelled
<1>4. i.v1 \in aliasclass[NodeMap[i.v1]] /\ i.v2 \in aliasclass[NodeMap[i.v2]]
  BY <1>1, <1>2 DEF Inv, Partition
<1> QED BY <1>1, <1>2, <1>3, <1>4

\* The frames that wait keep what they owe.
LEMMA OwedBelow ==
  ASSUME NEW lvl, Levelled(lvl), TypeOK, stack # <<>>, FramesOK(lvl),
         NEW half \in Half, Chained(half, lvl), NEW to, NEW from,
         half = "toReturn" => \A k \in Value : from[k] = FromNodeMap[k] \/ lvl[k] <= lvl[top.n2],
         NEW n \in Value, NEW m \in Value, NEW j \in 1..(Len(stack) - 1),
         Owes(stack[j], ToNodeMap, FromNodeMap, n, m)
  PROVE  Owes(stack[j], to, from, n, m)
<1> DEFINE fr == stack[j]
<1>1. /\ fr.n1 \in Value /\ fr.at = half
      /\ half = "toReturn" => lvl[fr.n1] > lvl[top.n2]
  BY Below
<1>2. lvl[fr.n1] \in Nat /\ lvl[top.n2] \in Nat
  BY <1>1, TopOK DEF Levelled
<1> HIDE DEF fr
<1>3. half = "toReturn" => from[fr.n1] = FromNodeMap[fr.n1]
  BY <1>1, <1>2
<1>4. Owes(fr, ToNodeMap, FromNodeMap, n, m)
  BY DEF fr
<1>5. Owes(fr, to, from, n, m)
  BY <1>1, <1>3, <1>4 DEF Owes, Half
<1> QED BY <1>5 DEF fr

LEMMA HeldOn ==
  ASSUME NEW lvl, Levelled(lvl), TypeOK, stack # <<>>, FramesOK(lvl),
         NEW half \in Half, Chained(half, lvl), NEW to, NEW from, NEW st,
         half = "toReturn" => \A k \in Value : from[k] = FromNodeMap[k] \/ lvl[k] <= lvl[top.n2],
         Len(st) \in Nat, Len(st) >= Len(stack) - 1,
         \A j \in 1..(Len(stack) - 1) : st[j] = stack[j],
         NEW n \in Value, NEW m \in Value,
         Held(stack, ToNodeMap, FromNodeMap, n, m),
         ToNodeMap[n] = m => Held(st, to, from, n, m),
         Owes(top, ToNodeMap, FromNodeMap, n, m) => Held(st, to, from, n, m)
  PROVE  Held(st, to, from, n, m)
<1>1. Len(stack) \in Nat \ {0}
  BY TopOK
<1>2. CASE \E j \in 1..Len(stack) : Owes(stack[j], ToNodeMap, FromNodeMap, n, m)
  <2>1. PICK j \in 1..Len(stack) : Owes(stack[j], ToNodeMap, FromNodeMap, n, m)
    BY <1>2
  <2>2. CASE j = Len(stack)
    BY <2>1, <2>2 DEF top
  <2>3. CASE j # Len(stack)
    <3>1. j \in 1..(Len(stack) - 1) /\ j \in 1..Len(st)
      BY <1>1, <2>3
    <3>2. Owes(stack[j], to, from, n, m)
      BY <2>1, <3>1, OwedBelow
    <3> QED BY <3>1, <3>2 DEF Held
  <2> QED BY <2>2, <2>3
<1> QED BY <1>2 DEF Held

\* The edges of the running frame's nodes.
LEMMA TopEdges ==
  ASSUME NEW lvl, Levelled(lvl), TypeOK, stack # <<>>, LevelInv(lvl), top.at \in {"to", "from"}
  PROVE  /\ top.n1 \in Value /\ top.n2 \in Value /\ top.n1 # top.n2
         /\ lvl[top.n1] = lvl[top.n2] /\ lvl[top.n2] \in Nat
         /\ \A k \in {top.n1, top.n2} :
              /\ ToNodeMap[k] # NoNode => /\ ToNodeMap[k] \in Value
                                          /\ FromNodeMap[ToNodeMap[k]] = k
                                          /\ lvl[ToNodeMap[k]] \in Nat
                                          /\ lvl[top.n2] = lvl[ToNodeMap[k]] + 1
              /\ FromNodeMap[k] # NoNode => /\ FromNodeMap[k] \in Value
                                            /\ ToNodeMap[FromNodeMap[k]] = k
                                            /\ lvl[FromNodeMap[k]] \in Nat
                                            /\ lvl[FromNodeMap[k]] = lvl[top.n2] + 1
<1>1. FramesOK(lvl) /\ Agree(ToNodeMap, FromNodeMap) /\ Falling(ToNodeMap, lvl)
  BY DEF LevelInv
<1>2. /\ top.n1 \in Value /\ top.n2 \in Value /\ top.n1 # top.n2
      /\ lvl[top.n1] = lvl[top.n2] /\ lvl[top.n2] \in Nat
  BY <1>1, TopOK DEF FrameOK
<1>3. \A k \in Value : k # NoNode /\ lvl[k] \in Nat
  BY ValueAssumption DEF Levelled
<1>4. ASSUME NEW k \in {top.n1, top.n2}, ToNodeMap[k] # NoNode
      PROVE  /\ ToNodeMap[k] \in Value /\ FromNodeMap[ToNodeMap[k]] = k
             /\ lvl[ToNodeMap[k]] \in Nat /\ lvl[top.n2] = lvl[ToNodeMap[k]] + 1
  <2>1. k \in Value /\ ToNodeMap[k] \in Value
    BY <1>2, <1>4 DEF TypeOK
  <2> QED BY <1>1, <1>2, <1>3, <1>4, <2>1 DEF Agree, Falling
<1>5. ASSUME NEW k \in {top.n1, top.n2}, FromNodeMap[k] # NoNode
      PROVE  /\ FromNodeMap[k] \in Value /\ ToNodeMap[FromNodeMap[k]] = k
             /\ lvl[FromNodeMap[k]] \in Nat /\ lvl[FromNodeMap[k]] = lvl[top.n2] + 1
  <2>1. k \in Value /\ FromNodeMap[k] \in Value
    BY <1>2, <1>5 DEF TypeOK
  <2>2. ToNodeMap[FromNodeMap[k]] = k
    BY <1>1, <2>1 DEF Agree
  <2> QED BY <1>1, <1>2, <1>3, <2>1, <2>2 DEF Falling
<1> QED BY <1>2, <1>4, <1>5

-----------------------------------------------------------------------------
(* What the steps of mergeNode do to an access: n points to m. *)

LEMMA HeldByTo ==
  ASSUME NEW lvl, Levelled(lvl), TypeOK, LevelInv(lvl), Merged, MergeTo,
         NEW n \in Value, NEW m \in Value, lvl[n] = lvl[m] + 1,
         aliasclass[n] # {}, aliasclass[m] # {},
         Held(stack, ToNodeMap, FromNodeMap, n, m)
  PROVE  Held(stack', ToNodeMap', FromNodeMap', n, m)
<1> DEFINE n1 == top.n1
           n2 == top.n2
           m1 == ToNodeMap[n1]
           m2 == ToNodeMap[n2]
           size == Len(stack)
<1>1. stack # <<>> /\ top.at = "to" /\ stack \in Seq(Frame)
  BY DEF MergeTo, Running, TypeOK
<1>2. FramesOK(lvl) /\ \E half \in Half : Chained(half, lvl)
  BY DEF LevelInv
<1>3. /\ n1 \in Value /\ n2 \in Value /\ n1 # n2 /\ lvl[n1] = lvl[n2] /\ lvl[n2] \in Nat
      /\ m1 # NoNode => m1 \in Value /\ FromNodeMap[m1] = n1 /\ lvl[m1] \in Nat /\ lvl[n2] = lvl[m1] + 1
      /\ m2 # NoNode => m2 \in Value /\ FromNodeMap[m2] = n2 /\ lvl[m2] \in Nat /\ lvl[n2] = lvl[m2] + 1
  BY <1>1, TopEdges
<1>4. ToNodeMap \in EdgeMap /\ FromNodeMap \in EdgeMap /\ n # NoNode /\ m # NoNode
  BY ValueAssumption DEF TypeOK, EdgeMap
<1>5. size \in Nat \ {0} /\ stack[size] = top /\ size \in 1..size
  BY <1>1, TopType DEF top
<1>6. n # n1 /\ m # n1
  BY <1>1, <1>5 DEF Merged
<1>7. Owes(top, ToNodeMap, FromNodeMap, n, m) =>
        \/ n = n2 /\ m1 = m
        \/ m = n2 /\ FromNodeMap[n1] = n
  BY <1>1 DEF Owes
<1>8. GoOn("from") => /\ Len(stack') = size /\ \A j \in 1..(size - 1) : stack'[j] = stack[j]
                      /\ stack'[size].at = "from" /\ stack'[size].n1 = n1 /\ stack'[size].n2 = n2
  <2>1. GoOn("from") => /\ Len(stack') = size /\ \A j \in 1..(size - 1) : stack'[j] = stack[j]
                        /\ top'.at = "from" /\ top'.n1 = n1 /\ top'.n2 = n2
    BY <1>1, GoOnAt DEF Phase
  <2> QED BY <2>1 DEF top
<1>9. CASE m1 = NoNode /\ GoOn("from") /\ UNCHANGED <<ToNodeMap, FromNodeMap>>
  <2>1. PICK half \in Half : Chained(half, lvl)
    BY <1>2
  <2>2. Owes(top, ToNodeMap, FromNodeMap, n, m) => Owes(stack'[size], ToNodeMap', FromNodeMap', n, m)
    BY <1>4, <1>7, <1>8, <1>9 DEF Owes
  <2>3. Owes(top, ToNodeMap, FromNodeMap, n, m) => Held(stack', ToNodeMap', FromNodeMap', n, m)
    BY <1>5, <1>8, <1>9, <2>2 DEF Held
  <2>4. ToNodeMap[n] = m => Held(stack', ToNodeMap', FromNodeMap', n, m)
    BY <1>9 DEF Held
  <2> QED BY <1>1, <1>2, <1>5, <1>8, <1>9, <2>1, <2>3, <2>4, HeldOn
<1>10. CASE /\ m1 # NoNode /\ m2 = NoNode
            /\ ToNodeMap' = MovedEdge(ToNodeMap, n1, n2)
            /\ FromNodeMap' = [FromNodeMap EXCEPT ![m1] = n2]
            /\ GoOn("from")
  <2>1. Chained("toReturn", lvl)
    BY <1>1, <1>10, HalfOf DEF Half
  <2> HIDE DEF m1, m2
  <2>2. /\ \A k \in Value : ToNodeMap'[k] = IF k = n2 THEN m1 ELSE IF k = n1 THEN NoNode ELSE ToNodeMap[k]
        /\ \A k \in Value : FromNodeMap'[k] = IF k = m1 THEN n2 ELSE FromNodeMap[k]
    BY <1>3, <1>4, <1>10 DEF MovedEdge, EdgeMap, m1
  <2> HIDE DEF n1, n2, size
  <2>3. FromNodeMap'[n1] = FromNodeMap[n1]
    BY <1>3, <1>10, <2>2
  <2>4. ToNodeMap[n] = m => ToNodeMap'[n] = m
    BY <1>4, <1>6, <1>10, <2>2 DEF m2
  <2>5. Owes(top, ToNodeMap, FromNodeMap, n, m) =>
          ToNodeMap'[n] = m \/ Owes(stack'[size], ToNodeMap', FromNodeMap', n, m)
    BY <1>3, <1>7, <1>8, <1>10, <2>2, <2>3 DEF Owes
  <2>6. Owes(top, ToNodeMap, FromNodeMap, n, m) => Held(stack', ToNodeMap', FromNodeMap', n, m)
    BY <1>5, <1>8, <1>10, <2>5 DEF Held
  <2>7. \A k \in Value : FromNodeMap'[k] = FromNodeMap[k] \/ lvl[k] <= lvl[n2]
    BY <1>3, <1>10, <2>2
  <2>8. ToNodeMap[n] = m => Held(stack', ToNodeMap', FromNodeMap', n, m)
    BY <2>4 DEF Held
  <2>9. /\ Len(stack') \in Nat /\ Len(stack') >= Len(stack) - 1
        /\ \A j \in 1..(Len(stack) - 1) : stack'[j] = stack[j]
    BY <1>5, <1>8, <1>10 DEF size
  <2> QED BY <1>1, <1>2, <2>1, <2>6, <2>7, <2>8, <2>9, HeldOn DEF Half, n2
<1>11. CASE /\ m1 # NoNode /\ m2 # NoNode /\ m1 # m2
            /\ ToNodeMap' = Erased(ToNodeMap, n1, n2)
            /\ FromNodeMap' = Erased(FromNodeMap, m1, m2)
            /\ Recurse("toReturn", m1, m2)
  <2>1. Chained("toReturn", lvl)
    BY <1>1, <1>11, HalfOf DEF Half
  <2>2. m1 \in Value /\ m2 \in Value
    BY <1>3, <1>11
  <2>3. /\ Len(stack') = size + 1
        /\ \A j \in 1..(size - 1) : stack'[j] = stack[j]
        /\ stack'[size] = Activation(n1, n2, "toReturn", m1, m2)
    BY <1>1, <1>11, <2>2, RecurseType DEF Phase
  <2> HIDE DEF m1, m2
  <2>4. /\ \A k \in Value : ToNodeMap'[k] = IF k = n1 \/ k = n2 THEN NoNode ELSE ToNodeMap[k]
        /\ \A k \in Value : FromNodeMap'[k] = IF k = m1 \/ k = m2 THEN NoNode ELSE FromNodeMap[k]
    BY <1>3, <1>4, <1>11, <2>2 DEF Erased, EdgeMap
  <2> HIDE DEF n1, n2, size
  <2>5. FromNodeMap'[n1] = FromNodeMap[n1]
    BY <1>3, <1>11, <2>4
  <2>6. ToNodeMap[n] = m => ToNodeMap'[n] = m \/ (n = n2 /\ m = m2)
    BY <1>6, <2>4 DEF m2
  <2>7. /\ stack'[size].at = "toReturn" /\ stack'[size].n1 = n1 /\ stack'[size].n2 = n2
        /\ stack'[size].m1 = m1 /\ stack'[size].m2 = m2
    BY <2>3 DEF Activation
  <2>8. /\ n = n2 /\ m \in {m1, m2} => Owes(stack'[size], ToNodeMap', FromNodeMap', n, m)
        /\ m = n2 /\ FromNodeMap[n1] = n => Owes(stack'[size], ToNodeMap', FromNodeMap', n, m)
    BY <2>5, <2>7 DEF Owes
  <2>9. size \in 1..Len(stack')
    BY <1>5, <2>3
  <2>10. Owes(top, ToNodeMap, FromNodeMap, n, m) => Held(stack', ToNodeMap', FromNodeMap', n, m)
    BY <1>7, <2>8, <2>9 DEF Held
  <2>11. ToNodeMap[n] = m => Held(stack', ToNodeMap', FromNodeMap', n, m)
    BY <2>6, <2>8, <2>9 DEF Held
  <2>12. \A k \in Value : FromNodeMap'[k] = FromNodeMap[k] \/ lvl[k] <= lvl[n2]
    BY <1>3, <1>11, <2>4
  <2> QED BY <1>1, <1>2, <1>5, <2>1, <2>3, <2>10, <2>11, <2>12, HeldOn DEF Half, n2, size
<1>12. m1 = m2 => m1 = NoNode
  BY <1>3
<1>13. \/ (m1 = NoNode \/ m1 = m2) /\ GoOn("from") /\ UNCHANGED <<ToNodeMap, FromNodeMap>>
       \/ /\ m1 # NoNode /\ m2 = NoNode
          /\ ToNodeMap' = MovedEdge(ToNodeMap, n1, n2)
          /\ FromNodeMap' = [FromNodeMap EXCEPT ![m1] = n2]
          /\ GoOn("from")
       \/ /\ m1 # NoNode /\ m2 # NoNode /\ m1 # m2
          /\ ToNodeMap' = Erased(ToNodeMap, n1, n2)
          /\ FromNodeMap' = Erased(FromNodeMap, m1, m2)
          /\ Recurse("toReturn", m1, m2)
  BY DEF MergeTo
<1> HIDE DEF m1, m2, n1, n2
<1> QED BY <1>9, <1>10, <1>11, <1>12, <1>13

LEMMA HeldByFrom ==
  ASSUME NEW lvl, Levelled(lvl), TypeOK, LevelInv(lvl), Merged, MergeFrom,
         NEW n \in Value, NEW m \in Value, lvl[n] = lvl[m] + 1,
         aliasclass[n] # {}, aliasclass[m] # {},
         Held(stack, ToNodeMap, FromNodeMap, n, m)
  PROVE  Held(stack', ToNodeMap', FromNodeMap', n, m)
<1> DEFINE n1 == top.n1
           n2 == top.n2
           m1 == FromNodeMap[n1]
           m2 == FromNodeMap[n2]
           size == Len(stack)
<1>1. stack # <<>> /\ top.at = "from" /\ stack \in Seq(Frame)
  BY DEF MergeFrom, Running, TypeOK
<1>2. FramesOK(lvl) /\ \E half \in Half : Chained(half, lvl)
  BY DEF LevelInv
<1>3. /\ n1 \in Value /\ n2 \in Value /\ n1 # n2 /\ lvl[n1] = lvl[n2] /\ lvl[n2] \in Nat
      /\ m1 # NoNode => m1 \in Value /\ ToNodeMap[m1] = n1 /\ lvl[m1] \in Nat /\ lvl[m1] = lvl[n2] + 1
      /\ m2 # NoNode => m2 \in Value /\ ToNodeMap[m2] = n2 /\ lvl[m2] \in Nat /\ lvl[m2] = lvl[n2] + 1
  BY <1>1, TopEdges
<1>4. ToNodeMap \in EdgeMap /\ FromNodeMap \in EdgeMap /\ n # NoNode /\ m # NoNode
  BY ValueAssumption DEF TypeOK, EdgeMap
<1>5. size \in Nat \ {0} /\ stack[size] = top /\ size \in 1..size
  BY <1>1, TopType DEF top
<1>6. n # n1 /\ m # n1
  BY <1>1, <1>5 DEF Merged
<1>7. Owes(top, ToNodeMap, FromNodeMap, n, m) => m = n2 /\ m1 = n
  BY <1>1 DEF Owes
<1>8. Pop => Len(stack') = size - 1 /\ \A j \in 1..(size - 1) : stack'[j] = stack[j]
  BY <1>1, PopType
<1>9. CASE m1 = NoNode /\ Pop /\ UNCHANGED <<ToNodeMap, FromNodeMap>>
  <2>1. PICK half \in Half : Chained(half, lvl)
    BY <1>2
  <2>2. ToNodeMap[n] = m => Held(stack', ToNodeMap', FromNodeMap', n, m)
    BY <1>9 DEF Held
  <2>3. ~Owes(top, ToNodeMap, FromNodeMap, n, m)
    BY <1>4, <1>7, <1>9
  <2>4. /\ Len(stack') \in Nat /\ Len(stack') >= Len(stack) - 1
        /\ \A j \in 1..(Len(stack) - 1) : stack'[j] = stack[j]
    BY <1>5, <1>8, <1>9
  <2> QED BY <1>1, <1>2, <1>9, <2>1, <2>2, <2>3, <2>4, HeldOn
<1>10. CASE /\ m1 # NoNode /\ m2 = NoNode
            /\ FromNodeMap' = MovedEdge(FromNodeMap, n1, n2)
            /\ ToNodeMap' = [ToNodeMap EXCEPT ![m1] = n2]
            /\ Pop
  <2>1. Chained("fromReturn", lvl)
    BY <1>1, <1>10, HalfOf DEF Half
  <2> HIDE DEF m1, m2
  <2>2. \A k \in Value : ToNodeMap'[k] = IF k = m1 THEN n2 ELSE ToNodeMap[k]
    BY <1>3, <1>4, <1>10 DEF EdgeMap
  <2> HIDE DEF n1, n2, size
  <2>3. ToNodeMap[n] = m => Held(stack', ToNodeMap', FromNodeMap', n, m)
    BY <1>3, <1>6, <1>10, <2>2 DEF Held
  <2>4. Owes(top, ToNodeMap, FromNodeMap, n, m) => Held(stack', ToNodeMap', FromNodeMap', n, m)
    BY <1>3, <1>7, <1>10, <2>2 DEF Held
  <2>5. /\ Len(stack') \in Nat /\ Len(stack') >= Len(stack) - 1
        /\ \A j \in 1..(Len(stack) - 1) : stack'[j] = stack[j]
    BY <1>5, <1>8, <1>10 DEF size
  <2> QED BY <1>1, <1>2, <2>1, <2>3, <2>4, <2>5, HeldOn DEF Half
<1>11. CASE /\ m1 # NoNode /\ m2 # NoNode /\ m1 # m2
            /\ FromNodeMap' = Erased(FromNodeMap, n1, n2)
            /\ ToNodeMap' = Erased(ToNodeMap, m1, m2)
            /\ Recurse("fromReturn", m1, m2)
  <2>1. Chained("fromReturn", lvl)
    BY <1>1, <1>11, HalfOf DEF Half
  <2>2. m1 \in Value /\ m2 \in Value
    BY <1>3, <1>11
  <2>3. /\ Len(stack') = size + 1
        /\ \A j \in 1..(size - 1) : stack'[j] = stack[j]
        /\ stack'[size] = Activation(n1, n2, "fromReturn", m1, m2)
    BY <1>1, <1>11, <2>2, RecurseType DEF Phase
  <2> HIDE DEF m1, m2
  <2>4. \A k \in Value : ToNodeMap'[k] = IF k = m1 \/ k = m2 THEN NoNode ELSE ToNodeMap[k]
    BY <1>3, <1>4, <1>11, <2>2 DEF Erased, EdgeMap
  <2> HIDE DEF n1, n2, size
  <2>5. ToNodeMap[n] = m => ToNodeMap'[n] = m \/ (m = n2 /\ n = m2)
    BY <1>3, <1>6, <1>11, <2>4
  <2>6. /\ stack'[size].at = "fromReturn" /\ stack'[size].n2 = n2
        /\ stack'[size].m1 = m1 /\ stack'[size].m2 = m2
    BY <2>3 DEF Activation
  <2>7. m = n2 /\ n \in {m1, m2} => Owes(stack'[size], ToNodeMap', FromNodeMap', n, m)
    BY <2>6 DEF Owes
  <2>8. size \in 1..Len(stack')
    BY <1>5, <2>3
  <2>9. Owes(top, ToNodeMap, FromNodeMap, n, m) => Held(stack', ToNodeMap', FromNodeMap', n, m)
    BY <1>7, <2>7, <2>8 DEF Held
  <2>10. ToNodeMap[n] = m => Held(stack', ToNodeMap', FromNodeMap', n, m)
    BY <2>5, <2>7, <2>8 DEF Held
  <2>11. /\ Len(stack') \in Nat /\ Len(stack') >= Len(stack) - 1
         /\ \A j \in 1..(Len(stack) - 1) : stack'[j] = stack[j]
    BY <1>5, <2>3 DEF size
  <2> QED BY <1>1, <1>2, <2>1, <2>9, <2>10, <2>11, HeldOn DEF Half
<1>12. m1 = m2 => m1 = NoNode
  BY <1>3
<1>13. \/ (m1 = NoNode \/ m1 = m2) /\ Pop /\ UNCHANGED <<ToNodeMap, FromNodeMap>>
       \/ /\ m1 # NoNode /\ m2 = NoNode
          /\ FromNodeMap' = MovedEdge(FromNodeMap, n1, n2)
          /\ ToNodeMap' = [ToNodeMap EXCEPT ![m1] = n2]
          /\ Pop
       \/ /\ m1 # NoNode /\ m2 # NoNode /\ m1 # m2
          /\ FromNodeMap' = Erased(FromNodeMap, n1, n2)
          /\ ToNodeMap' = Erased(ToNodeMap, m1, m2)
          /\ Recurse("fromReturn", m1, m2)
  BY DEF MergeFrom
<1> HIDE DEF m1, m2, n1, n2
<1> QED BY <1>9, <1>10, <1>11, <1>12, <1>13

\* The edge is put back for the accesses of both nodes of the merge that returned,
\* which were united if nothing was blocked.
LEMMA HeldByReturn ==
  ASSUME NEW lvl, Levelled(lvl), TypeOK, LevelInv(lvl), Merged, blockedMerges = 0,
         MergeToReturn \/ MergeFromReturn,
         NEW n \in Value, NEW m \in Value, lvl[n] = lvl[m] + 1,
         aliasclass[n] # {}, aliasclass[m] # {},
         Held(stack, ToNodeMap, FromNodeMap, n, m)
  PROVE  Held(stack', ToNodeMap', FromNodeMap', n, m)
<1> DEFINE n1 == top.n1
           n2 == top.n2
           m1 == top.m1
           m2 == top.m2
           size == Len(stack)
<1>1. stack # <<>> /\ stack \in Seq(Frame)
  BY DEF MergeToReturn, MergeFromReturn, Running, TypeOK
<1>2. FramesOK(lvl)
  BY DEF LevelInv
<1>3. PICK half \in Half : Chained(half, lvl)
  BY DEF LevelInv
<1>4. ToNodeMap \in EdgeMap /\ FromNodeMap \in EdgeMap /\ n # NoNode /\ m # NoNode
  BY ValueAssumption DEF TypeOK, EdgeMap
<1>5. size \in Nat \ {0} /\ stack[size] = top /\ size \in 1..size
  BY <1>1, TopType DEF top
<1>6. n1 \in Value /\ n2 \in Value /\ FrameOK(top, ToNodeMap, FromNodeMap, aliasclass, lvl)
  BY <1>1, <1>2, TopOK
<1>7. top.at \in Half => aliasclass[m1] = {} /\ m2 \in Value /\ lvl[n1] = lvl[n2]
  BY <1>1, <1>6 DEF Merged, FrameOK
<1>8. \A k \in Value : lvl[k] \in Nat
  BY DEF Levelled
<1>9. CASE MergeToReturn
  <2>1. top.at = "toReturn" /\ AddEdge(n2, m2) /\ GoOn("from")
    BY <1>9 DEF MergeToReturn, Running
  <2>2. m2 \in Value /\ lvl[n2] = lvl[m2] + 1 /\ lvl[n1] = lvl[n2] /\ ToNodeMap[n2] = NoNode /\ n # m1 /\ m # m1
    BY <1>6, <1>7, <2>1 DEF FrameOK, Reserved, Half
  <2>3. /\ Len(stack') = size /\ \A j \in 1..(size - 1) : stack'[j] = stack[j]
        /\ top'.at = "from" /\ top'.n1 = n1 /\ top'.n2 = n2
    BY <1>1, <2>1, GoOnAt DEF Phase
  <2>4. stack'[size].at = "from" /\ stack'[size].n1 = n1 /\ stack'[size].n2 = n2
    BY <2>3 DEF top
  <2>5. Owes(top, ToNodeMap, FromNodeMap, n, m) =>
          (m = n2 /\ FromNodeMap[n1] = n) \/ (n = n2 /\ m = m2)
    BY <2>1, <2>2 DEF Owes
  <2> HIDE DEF n1, n2, m1, m2, size
  <2>6. /\ \A k \in Value : ToNodeMap'[k] = IF k = n2 THEN m2 ELSE ToNodeMap[k]
        /\ \A k \in Value : FromNodeMap'[k] = IF k = m2 THEN n2 ELSE FromNodeMap[k]
    BY <1>4, <1>6, <2>1, <2>2 DEF EdgeMap, AddEdge
  <2>7. n1 # m2
    BY <1>6, <1>8, <2>2
  <2>8. FromNodeMap[n1] = n /\ m = n2 => Owes(stack'[size], ToNodeMap', FromNodeMap', n, m)
    BY <1>6, <2>4, <2>6, <2>7 DEF Owes
  <2>9. Owes(top, ToNodeMap, FromNodeMap, n, m) => Held(stack', ToNodeMap', FromNodeMap', n, m)
    BY <1>5, <1>6, <2>3, <2>5, <2>6, <2>8 DEF Held
  <2>10. ToNodeMap[n] = m => Held(stack', ToNodeMap', FromNodeMap', n, m)
    BY <1>4, <2>2, <2>6 DEF Held
  <2>11. /\ Len(stack') \in Nat /\ Len(stack') >= Len(stack) - 1
         /\ \A j \in 1..(Len(stack) - 1) : stack'[j] = stack[j]
    BY <1>5, <2>3 DEF size
  <2>12. \A k \in Value : FromNodeMap'[k] = FromNodeMap[k] \/ lvl[k] <= lvl[n2]
    BY <1>6, <1>8, <2>2, <2>6
  <2> QED BY <1>1, <1>2, <1>3, <2>9, <2>10, <2>11, <2>12, HeldOn DEF n2
<1>10. CASE MergeFromReturn
  <2>1. top.at = "fromReturn" /\ AddEdge(m2, n2) /\ Pop /\ half = "fromReturn"
    BY <1>1, <1>3, <1>10 DEF MergeFromReturn, Running, Chained, Half
  <2>2. m2 \in Value /\ ToNodeMap[m2] = NoNode /\ n # m1 /\ m # m1
    BY <1>6, <1>7, <2>1 DEF FrameOK, Reserved, Half
  <2>3. Len(stack') = size - 1 /\ \A j \in 1..(size - 1) : stack'[j] = stack[j]
    BY <1>1, <2>1, PopType
  <2>4. Owes(top, ToNodeMap, FromNodeMap, n, m) => n = m2 /\ m = n2
    BY <2>1, <2>2 DEF Owes
  <2> HIDE DEF n1, n2, m1, m2, size
  <2>5. \A k \in Value : ToNodeMap'[k] = IF k = m2 THEN n2 ELSE ToNodeMap[k]
    BY <1>4, <1>6, <2>1, <2>2 DEF EdgeMap, AddEdge
  <2>6. Owes(top, ToNodeMap, FromNodeMap, n, m) => Held(stack', ToNodeMap', FromNodeMap', n, m)
    BY <2>4, <2>5 DEF Held
  <2>7. ToNodeMap[n] = m => Held(stack', ToNodeMap', FromNodeMap', n, m)
    BY <1>4, <2>2, <2>5 DEF Held
  <2>8. /\ Len(stack') \in Nat /\ Len(stack') >= Len(stack) - 1
        /\ \A j \in 1..(Len(stack) - 1) : stack'[j] = stack[j]
    BY <1>5, <2>3 DEF size
  <2>9. half # "toReturn"
    BY <2>1
  <2> QED BY <1>1, <1>2, <1>3, <2>6, <2>7, <2>8, <2>9, HeldOn
<1> QED BY <1>9, <1>10

LEMMA HeldBySelf ==
  ASSUME NEW lvl, Levelled(lvl), TypeOK, LevelInv(lvl), MergeSelf,
         NEW n \in Value, NEW m \in Value,
         Held(stack, ToNodeMap, FromNodeMap, n, m)
  PROVE  Held(stack', ToNodeMap', FromNodeMap', n, m)
<1>1. /\ stack # <<>> /\ stack \in Seq(Frame) /\ FramesOK(lvl)
      /\ top.at = "enter" /\ top.n1 = top.n2 /\ Pop /\ UNCHANGED <<ToNodeMap, FromNodeMap>>
  BY DEF MergeSelf, Running, TypeOK, LevelInv, graph
<1>2. PICK half \in Half : Chained(half, lvl)
  BY DEF LevelInv
<1>3. /\ Len(stack') \in Nat /\ Len(stack') >= Len(stack) - 1
      /\ \A j \in 1..(Len(stack) - 1) : stack'[j] = stack[j]
  BY <1>1, PopType, TopType
<1>4. Owes(top, ToNodeMap, FromNodeMap, n, m) => ToNodeMap[n] = m
  BY <1>1 DEF Owes
<1>5. ToNodeMap[n] = m => Held(stack', ToNodeMap', FromNodeMap', n, m)
  BY <1>1 DEF Held
<1> QED BY <1>1, <1>2, <1>3, <1>4, <1>5, HeldOn

\* The values of the first node go to the second, and what its frame owes begins.
LEMMA HeldByValues ==
  ASSUME NEW lvl, Levelled(lvl), TypeOK, LevelInv(lvl), MergeValues,
         NEW n \in Value, NEW m \in Value, lvl[n] = lvl[m] + 1,
         Held(stack, ToNodeMap, FromNodeMap, n, m),
         NEW n0, n0 = IF n = top.n1 THEN top.n2 ELSE n,
         NEW m0, m0 = IF m = top.n1 THEN top.n2 ELSE m
  PROVE  Held(stack', ToNodeMap', FromNodeMap', n0, m0)
<1> DEFINE n1 == top.n1
           n2 == top.n2
           size == Len(stack)
<1>1. /\ stack # <<>> /\ stack \in Seq(Frame) /\ FramesOK(lvl) /\ Agree(ToNodeMap, FromNodeMap)
      /\ top.at = "enter" /\ n1 # n2 /\ GoOn("to") /\ UNCHANGED <<ToNodeMap, FromNodeMap>>
  BY DEF MergeValues, Running, TypeOK, LevelInv
<1>2. PICK half \in Half : Chained(half, lvl)
  BY DEF LevelInv
<1>3. size \in Nat \ {0} /\ stack[size] = top /\ size \in 1..size
  BY <1>1, TopType DEF top
<1>4. /\ n1 \in Value /\ n2 \in Value /\ lvl[n1] = lvl[n2]
      /\ lvl[n2] \in Nat /\ lvl[n] \in Nat /\ lvl[m] \in Nat
  BY <1>1, TopOK DEF FrameOK, Levelled
<1>5. /\ Len(stack') = size /\ \A j \in 1..(size - 1) : stack'[j] = stack[j]
      /\ top'.at = "to" /\ top'.n1 = n1 /\ top'.n2 = n2
  BY <1>1, GoOnAt DEF Phase
<1>6. stack'[size].at = "to" /\ stack'[size].n1 = n1 /\ stack'[size].n2 = n2
  BY <1>5 DEF top
<1>7. \/ n = n1 /\ m # n1 /\ n0 = n2 /\ m0 = m
      \/ n # n1 /\ m = n1 /\ n0 = n /\ m0 = n2
      \/ n # n1 /\ m # n1 /\ n0 = n /\ m0 = m
  BY <1>4
<1>8. /\ n0 = n2 /\ ToNodeMap[n1] = m0 => Held(stack', ToNodeMap', FromNodeMap', n0, m0)
      /\ m0 = n2 /\ FromNodeMap[n1] = n0 => Held(stack', ToNodeMap', FromNodeMap', n0, m0)
      /\ ToNodeMap[n0] = m0 => Held(stack', ToNodeMap', FromNodeMap', n0, m0)
  BY <1>1, <1>3, <1>5, <1>6 DEF Held, Owes
<1>9. CASE ToNodeMap[n] = m
  <2>1. FromNodeMap[m] = n
    BY <1>1, <1>9 DEF Agree
  <2> QED BY <1>7, <1>8, <1>9, <2>1
<1>10. CASE \E j \in 1..size : Owes(stack[j], ToNodeMap, FromNodeMap, n, m)
  <2>1. PICK j \in 1..size : Owes(stack[j], ToNodeMap, FromNodeMap, n, m)
    BY <1>10
  <2>2. CASE j = size
    <3>1. (m = n1 /\ ToNodeMap[n] = n2) \/ (n = n2 /\ ToNodeMap[n1] = m)
      BY <1>1, <1>3, <2>1, <2>2 DEF Owes
    <3>2. m = n1 /\ ToNodeMap[n] = n2 => n0 = n /\ m0 = n2
      BY <1>7
    <3>3. n = n2 => n0 = n2 /\ m0 = m
      BY <1>1, <1>4, <1>7
    <3> QED BY <1>8, <3>1, <3>2, <3>3
  <2>3. CASE j # size
    <3> DEFINE fr == stack[j]
    <3>1. j \in 1..(size - 1) /\ j \in 1..Len(stack') /\ stack'[j] = fr
      BY <1>3, <1>5, <2>3
    <3>2. /\ fr.n1 \in Value /\ fr.n2 \in Value /\ fr.m1 \in Value /\ fr.m2 \in Value
          /\ fr.at = half /\ FrameOK(fr, ToNodeMap, FromNodeMap, aliasclass, lvl)
          /\ half = "toReturn" => lvl[fr.n2] > lvl[n2]
          /\ half = "fromReturn" => lvl[fr.n2] < lvl[n2]
      BY <1>1, <1>2, <3>1, Below
    <3>3. lvl[fr.n2] \in Nat
      BY <3>2 DEF Levelled
    <3>4. fr.m1 = n1 => fr.m2 = n2
      <4>1. j + 1 \in 1..size /\ fr.m1 = stack[j + 1].n1 /\ fr.m2 = stack[j + 1].n2
        BY <1>2, <1>3, <3>1 DEF Chained
      <4>2. CASE j + 1 = size
        BY <1>3, <4>1, <4>2
      <4>3. CASE j + 1 # size
        <5>1. j + 1 \in 1..(size - 1)
          BY <1>3, <4>1, <4>3
        <5>2. /\ stack[j + 1].n1 \in Value
              /\ half = "toReturn" => lvl[stack[j + 1].n1] > lvl[n2]
              /\ half = "fromReturn" => lvl[stack[j + 1].n1] < lvl[n2]
          BY <1>1, <1>2, <5>1, Below
        <5>3. fr.m1 # n1
          BY <1>4, <4>1, <5>2 DEF Half
        <5> QED BY <5>3
      <4> QED BY <4>2, <4>3
    <3>5. fr.m2 = n1 => FALSE
      <4>1. j + 1 \in 1..size /\ fr.m2 = stack[j + 1].n2
        BY <1>2, <1>3, <3>1 DEF Chained
      <4>2. CASE j + 1 = size
        BY <1>1, <1>3, <4>1, <4>2
      <4>3. CASE j + 1 # size
        <5>1. j + 1 \in 1..(size - 1)
          BY <1>3, <4>1, <4>3
        <5>2. /\ stack[j + 1].n2 \in Value
              /\ half = "toReturn" => lvl[stack[j + 1].n2] > lvl[n2]
              /\ half = "fromReturn" => lvl[stack[j + 1].n2] < lvl[n2]
          BY <1>1, <1>2, <5>1, Below
        <5> QED BY <1>4, <4>1, <5>2 DEF Half
      <4> QED BY <4>2, <4>3
    <3>6. Owes(fr, ToNodeMap, FromNodeMap, n, m)
      BY <2>1
    <3> HIDE DEF fr, n1, n2, size
    <3>7. Owes(fr, ToNodeMap, FromNodeMap, n0, m0)
      <4>1. CASE half = "toReturn"
        <5>1. \/ m = fr.n2 /\ FromNodeMap[fr.n1] = n
              \/ n = fr.n2 /\ m \in {fr.m1, fr.m2}
          BY <3>2, <3>6, <4>1 DEF Owes
        <5>2. CASE m = fr.n2 /\ FromNodeMap[fr.n1] = n
          <6>1. n # n1 /\ m # n1
            BY <1>4, <3>2, <3>3, <4>1, <5>2
          <6> QED BY <1>7, <3>6, <6>1
        <5>3. CASE n = fr.n2 /\ m \in {fr.m1, fr.m2}
          <6>1. n # n1
            BY <1>4, <3>2, <3>3, <4>1, <5>3
          <6>2. n0 = n /\ m0 \in {fr.m1, fr.m2}
            BY <1>7, <3>4, <3>5, <5>3, <6>1
          <6> QED BY <3>2, <4>1, <5>3, <6>2 DEF Owes
        <5> QED BY <5>1, <5>2, <5>3
      <4>2. CASE half = "fromReturn"
        <5>1. m = fr.n2 /\ n \in {fr.m1, fr.m2}
          BY <3>2, <3>6, <4>2 DEF Owes
        <5>2. m # n1
          BY <1>4, <3>2, <3>3, <4>2, <5>1
        <5>3. m0 = m /\ n0 \in {fr.m1, fr.m2}
          BY <1>7, <3>4, <3>5, <5>1, <5>2
        <5> QED BY <3>2, <4>2, <5>1, <5>3 DEF Owes
      <4> QED BY <4>1, <4>2 DEF Half
    <3> QED BY <1>1, <3>1, <3>7 DEF Held
  <2> QED BY <2>2, <2>3
<1> QED BY <1>9, <1>10 DEF Held

-----------------------------------------------------------------------------
(* What has been merged when mergeNode returns. *)

LEMMA MergedPop ==
  ASSUME NEW lvl, TypeOK, stack # <<>>, LevelInv(lvl), Merged, Pop, UNCHANGED aliasclass,
         blockedMerges' = 0 =>
           blockedMerges = 0 /\ (top.at = "enter" => top.n1 = top.n2)
  PROVE  Merged'
<1>1. stack \in Seq(Frame) /\ Len(stack) \in Nat \ {0}
  BY TopType DEF TypeOK
<1>2. /\ stack' \in Seq(Frame) /\ Len(stack') = Len(stack) - 1
      /\ \A j \in 1..Len(stack') : stack'[j] = stack[j]
  BY <1>1, PopType
<1>3. \A j \in 1..Len(stack') : j \in 1..Len(stack)
  BY <1>1, <1>2
<1>4. ASSUME NEW j \in 1..Len(stack')
      PROVE  /\ stack'[j].at # "enter" => aliasclass'[stack'[j].n1] = {}
             /\ stack'[j].at \in Half => stack'[j].m1 # stack'[j].m2
  BY <1>2, <1>3 DEF Merged
<1>5. ASSUME blockedMerges' = 0, stack' # <<>>, top'.at \in Half
      PROVE  aliasclass'[top'.m1] = {}
  <2>1. PICK half \in Half : Chained(half, lvl)
    BY DEF LevelInv
  <2>2. Len(stack') \in 1..(Len(stack) - 1) /\ Len(stack') + 1 = Len(stack) /\ Len(stack') \in 1..Len(stack)
    BY <1>1, <1>2, <1>5
  <2>3. top' = stack[Len(stack')]
    BY <1>2, <2>2 DEF top
  <2>4. top'.m1 = top.n1 /\ top'.m2 = top.n2
    BY <2>1, <2>2, <2>3 DEF Chained, top
  <2>5. top'.m1 # top'.m2
    BY <1>5, <2>2, <2>3 DEF Merged
  <2>6. top.at # "enter"
    BY <1>5, <2>4, <2>5
  <2>7. aliasclass[top.n1] = {}
    BY <1>1, <2>6 DEF Merged, top
  <2> QED BY <2>4, <2>7
<1> QED BY <1>4, <1>5 DEF Merged

LEMMA MergedGoOn ==
  ASSUME TypeOK, stack # <<>>, Merged, NEW at \in {"to", "from"}, GoOn(at),
         aliasclass'[top.n1] = {},
         \A j \in 1..(Len(stack) - 1) :
           stack[j].at # "enter" /\ aliasclass[stack[j].n1] = {} => aliasclass'[stack[j].n1] = {}
  PROVE  Merged'
<1>1. stack \in Seq(Frame) /\ Len(stack) \in Nat \ {0}
  BY TopType DEF TypeOK
<1>2. /\ Len(stack') = Len(stack) /\ \A j \in 1..(Len(stack) - 1) : stack'[j] = stack[j]
      /\ top'.at = at /\ top'.n1 = top.n1 /\ top' = stack'[Len(stack)]
  <2>1. /\ Len(stack') = Len(stack) /\ \A j \in 1..(Len(stack) - 1) : stack'[j] = stack[j]
        /\ top'.at = at /\ top'.n1 = top.n1
    BY <1>1, GoOnAt DEF Phase
  <2> QED BY <2>1 DEF top
<1>3. \A j \in 1..Len(stack') : j = Len(stack) \/ (j \in 1..(Len(stack) - 1) /\ j \in 1..Len(stack))
  BY <1>1, <1>2
<1>4. at \notin Half
  BY DEF Half
<1>5. ASSUME NEW j \in 1..Len(stack')
      PROVE  /\ stack'[j].at # "enter" => aliasclass'[stack'[j].n1] = {}
             /\ stack'[j].at \in Half => stack'[j].m1 # stack'[j].m2
  <2>1. CASE j = Len(stack)
    BY <1>2, <1>4, <2>1
  <2>2. CASE j \in 1..(Len(stack) - 1) /\ j \in 1..Len(stack)
    BY <1>2, <2>2 DEF Merged
  <2> QED BY <1>3, <2>1, <2>2
<1> QED BY <1>2, <1>4, <1>5 DEF Merged

LEMMA MergedRecurse ==
  ASSUME TypeOK, stack # <<>>, Merged, top.at # "enter", UNCHANGED aliasclass,
         NEW half \in Half, NEW m1 \in Value, NEW m2 \in Value, m1 # m2, Recurse(half, m1, m2)
  PROVE  Merged'
<1>1. stack \in Seq(Frame) /\ Len(stack) \in Nat \ {0} /\ Len(stack) \in 1..Len(stack)
  BY TopType DEF TypeOK
<1>2. /\ Len(stack') = Len(stack) + 1
      /\ \A j \in 1..(Len(stack) - 1) : stack'[j] = stack[j]
      /\ stack'[Len(stack)] = Activation(top.n1, top.n2, half, m1, m2)
      /\ stack'[Len(stack) + 1] = Activation(m1, m2, "enter", NoNode, NoNode)
  BY <1>1, RecurseType DEF Half, Phase
<1>3. top' = stack'[Len(stack) + 1]
  BY <1>2 DEF top
<1>4. top'.at \notin Half
  BY <1>2, <1>3 DEF Activation, Half
<1>5. ASSUME NEW j \in 1..Len(stack')
      PROVE  /\ stack'[j].at # "enter" => aliasclass'[stack'[j].n1] = {}
             /\ stack'[j].at \in Half => stack'[j].m1 # stack'[j].m2
  <2>1. CASE j = Len(stack)
    <3>1. aliasclass[top.n1] = {}
      BY <1>1 DEF Merged, top
    <3>2. stack'[j].n1 = top.n1 /\ stack'[j].m1 = m1 /\ stack'[j].m2 = m2
      BY <1>2, <2>1 DEF Activation
    <3> QED BY <3>1, <3>2
  <2>2. CASE j = Len(stack) + 1
    BY <1>2, <1>3, <1>4, <2>2 DEF Activation
  <2>3. CASE j # Len(stack) /\ j # Len(stack) + 1
    <3>1. j \in 1..(Len(stack) - 1) /\ j \in 1..Len(stack)
      BY <1>1, <1>2, <2>3
    <3> QED BY <1>2, <3>1 DEF Merged
  <2> QED BY <2>1, <2>2, <2>3
<1> QED BY <1>4, <1>5 DEF Merged

LEMMA MergedStep ==
  ASSUME NEW lvl, Levelled(lvl), TypeOK, LevelInv(lvl), Merged, Merge
  PROVE  Merged'
<1>1. stack # <<>> /\ stack \in Seq(Frame) /\ blockedMerges \in Nat
  BY DEF Merge, MergeBlocked, MergeSelf, MergeValues, MergeTo, MergeToReturn, MergeFrom,
         MergeFromReturn, Running, TypeOK
<1>2. FramesOK(lvl) /\ \E half \in Half : Chained(half, lvl)
  BY DEF LevelInv
<1>3. Len(stack) \in Nat \ {0} /\ Len(stack) \in 1..Len(stack) /\ top \in Frame
  BY <1>1, TopType
<1>4. top.at # "enter" => aliasclass[top.n1] = {}
  BY <1>3 DEF Merged, top
<1>5. ASSUME GoOn("from"), UNCHANGED aliasclass, top.at # "enter"
      PROVE  Merged'
  BY <1>1, <1>4, <1>5, MergedGoOn
<1>6. ASSUME NEW half \in Half, NEW m1, NEW m2, m1 \in Value, m2 \in Value, m1 # m2,
             Recurse(half, m1, m2), UNCHANGED aliasclass, top.at # "enter"
      PROVE  Merged'
  BY <1>1, <1>6, MergedRecurse
<1>7. CASE MergeBlocked
  <2>1. Pop /\ UNCHANGED aliasclass /\ blockedMerges' # 0
    BY <1>1, <1>7 DEF MergeBlocked, graph
  <2> QED BY <1>1, <2>1, MergedPop
<1>8. CASE MergeSelf
  <2>1. Pop /\ UNCHANGED <<aliasclass, blockedMerges>> /\ top.n1 = top.n2
    BY <1>8 DEF MergeSelf, graph
  <2> QED BY <1>1, <2>1, MergedPop
<1>9. CASE MergeValues
  <2>1. /\ GoOn("to") /\ top.n1 # top.n2 /\ aliasclass' = ClassesMerged(top.n1, top.n2)
    BY <1>9 DEF MergeValues
  <2>2. /\ top.n1 \in Value /\ top.n2 \in Value /\ lvl[top.n2] \in Nat
    BY <1>1, <1>2, TopOK
  <2>3. \A k \in Value : k # top.n2 => aliasclass'[k] = IF k = top.n1 THEN {} ELSE aliasclass[k]
    BY <2>1, <2>2 DEF ClassesMerged, TypeOK
  <2>4. ASSUME NEW j \in 1..(Len(stack) - 1), aliasclass[stack[j].n1] = {}
        PROVE  aliasclass'[stack[j].n1] = {}
    <3>1. PICK half \in Half : Chained(half, lvl)
      BY <1>2
    <3>2. /\ stack[j].n1 \in Value
          /\ half = "toReturn" => lvl[stack[j].n1] > lvl[top.n2]
          /\ half = "fromReturn" => lvl[stack[j].n1] < lvl[top.n2]
      BY <1>1, <1>2, <3>1, Below
    <3>3. stack[j].n1 # top.n2
      BY <2>2, <3>2 DEF Half
    <3> QED BY <2>3, <2>4, <3>2, <3>3
  <2>5. aliasclass'[top.n1] = {}
    BY <2>1, <2>2, <2>3
  <2> QED BY <1>1, <2>1, <2>4, <2>5, MergedGoOn
<1>10. CASE MergeTo
  <2>1. top.at = "to" /\ UNCHANGED aliasclass
    BY <1>10 DEF MergeTo, Running
  <2>2. \/ GoOn("from")
        \/ /\ ToNodeMap[top.n1] # NoNode /\ ToNodeMap[top.n2] # NoNode
           /\ ToNodeMap[top.n1] # ToNodeMap[top.n2]
           /\ Recurse("toReturn", ToNodeMap[top.n1], ToNodeMap[top.n2])
    BY <1>10 DEF MergeTo
  <2>3. /\ ToNodeMap[top.n1] # NoNode => ToNodeMap[top.n1] \in Value
        /\ ToNodeMap[top.n2] # NoNode => ToNodeMap[top.n2] \in Value
    BY <1>3 DEF TypeOK, Frame
  <2> QED BY <1>5, <1>6, <2>1, <2>2, <2>3 DEF Half
<1>11. CASE MergeToReturn
  BY <1>5, <1>11 DEF MergeToReturn, Running
<1>12. CASE MergeFrom
  <2>1. top.at = "from" /\ UNCHANGED <<aliasclass, blockedMerges>>
    BY <1>12 DEF MergeFrom, Running
  <2>2. \/ Pop
        \/ /\ FromNodeMap[top.n1] # NoNode /\ FromNodeMap[top.n2] # NoNode
           /\ FromNodeMap[top.n1] # FromNodeMap[top.n2]
           /\ Recurse("fromReturn", FromNodeMap[top.n1], FromNodeMap[top.n2])
    BY <1>12 DEF MergeFrom
  <2>3. /\ FromNodeMap[top.n1] # NoNode => FromNodeMap[top.n1] \in Value
        /\ FromNodeMap[top.n2] # NoNode => FromNodeMap[top.n2] \in Value
    BY <1>3 DEF TypeOK, Frame
  <2>4. CASE Pop
    BY <1>1, <2>1, <2>4, MergedPop
  <2> QED BY <1>6, <2>1, <2>2, <2>3, <2>4 DEF Half
<1>13. CASE MergeFromReturn
  <2>1. top.at = "fromReturn" /\ Pop /\ UNCHANGED <<aliasclass, blockedMerges>>
    BY <1>13 DEF MergeFromReturn, Running
  <2> QED BY <1>1, <2>1, MergedPop
<1> QED BY <1>7, <1>8, <1>9, <1>10, <1>11, <1>12, <1>13 DEF Merge

\* A step of mergeNode keeps every access.
LEMMA AccessMergeStep ==
  ASSUME NEW lvl, Levelled(lvl), Inv, LevelInv(lvl), AccessInv, Merge
  PROVE  AccessInv'
<1>1. TypeOK /\ Merged /\ Known /\ NodesLevelled(lvl) /\ UNCHANGED done
  BY DEF Inv, AccessInv, LevelInv, Merge, MergeBlocked, MergeSelf, MergeValues, MergeTo,
         MergeToReturn, MergeFrom, MergeFromReturn, Running
<1>2. Merged'
  BY <1>1, MergedStep
<1>3. CASE MergeValues
  <2> DEFINE n1 == top.n1
             n2 == top.n2
  <2>1. /\ NodeMap' = [v \in Value |-> IF v \in aliasclass[n1] THEN n2 ELSE NodeMap[v]]
        /\ stack # <<>> /\ UNCHANGED blockedMerges
    BY <1>3 DEF MergeValues, Running
  <2>2. n1 \in Value /\ n2 \in Value
    BY <1>1, <2>1, TopOK DEF LevelInv
  <2> HIDE DEF n1, n2
  <2>3. \A v \in Value : NodeMap'[v] = IF NodeMap[v] = n1 THEN n2 ELSE NodeMap[v]
    BY <2>1, <2>2 DEF Inv, Partition
  <2>4. Known'
    <3> SUFFICES ASSUME NEW i \in Calls, Access(i)
                 PROVE  NodeMap'[i.v1] \in Value /\ NodeMap'[i.v2] \in Value
      BY <1>1 DEF Known, Access
    <3> QED BY <1>1, <2>2, <2>3, AccessNodes
  <2>5. ASSUME blockedMerges = 0, NEW i \in Calls, Access(i)
        PROVE  Held(stack', ToNodeMap', FromNodeMap', NodeMap'[i.v2], NodeMap'[i.v1])
    <3>1. /\ NodeMap[i.v1] \in Value /\ NodeMap[i.v2] \in Value /\ i.v1 \in Value /\ i.v2 \in Value
          /\ lvl[NodeMap[i.v2]] = lvl[NodeMap[i.v1]] + 1
      BY <1>1, <2>5, AccessNodes
    <3>2. Held(stack, ToNodeMap, FromNodeMap, NodeMap[i.v2], NodeMap[i.v1])
      BY <2>5 DEF AccessInv, AllHeld
    <3>3. PICK n0 : n0 = NodeMap'[i.v2]
      OBVIOUS
    <3>4. PICK m0 : m0 = NodeMap'[i.v1]
      OBVIOUS
    <3>5. /\ n0 = IF NodeMap[i.v2] = top.n1 THEN top.n2 ELSE NodeMap[i.v2]
          /\ m0 = IF NodeMap[i.v1] = top.n1 THEN top.n2 ELSE NodeMap[i.v1]
      BY <2>3, <3>1, <3>3, <3>4 DEF n1, n2
    <3>6. Held(stack', ToNodeMap', FromNodeMap', n0, m0)
      BY <1>1, <1>3, <3>1, <3>2, <3>5, HeldByValues
    <3> QED BY <3>3, <3>4, <3>6
  <2>6. blockedMerges' = 0 => AllHeld'
    BY <1>1, <2>1, <2>5 DEF AllHeld, Access
  <2> QED BY <1>2, <2>4, <2>6 DEF AccessInv
<1>4. CASE ~MergeValues
  <2>1. UNCHANGED <<NodeMap, aliasclass>>
    BY <1>4 DEF Merge, MergeBlocked, MergeSelf, MergeTo, MergeToReturn, MergeFrom, MergeFromReturn, graph
  <2>2. Known'
    BY <1>1, <2>1 DEF Known, Access
  <2>3. ASSUME NEW i \in Calls, Access(i), blockedMerges' = 0
        PROVE  Held(stack', ToNodeMap', FromNodeMap', NodeMap[i.v2], NodeMap[i.v1])
    <3>1. /\ NodeMap[i.v1] \in Value /\ NodeMap[i.v2] \in Value
          /\ lvl[NodeMap[i.v2]] = lvl[NodeMap[i.v1]] + 1
          /\ aliasclass[NodeMap[i.v1]] # {} /\ aliasclass[NodeMap[i.v2]] # {}
      BY <1>1, <2>3, AccessNodes
    <3>2. ~MergeBlocked /\ UNCHANGED blockedMerges
      BY <1>1, <1>4, <2>3 DEF TypeOK, Merge, MergeBlocked, MergeSelf, MergeTo, MergeToReturn,
                              MergeFrom, MergeFromReturn
    <3>3. blockedMerges = 0 /\ Held(stack, ToNodeMap, FromNodeMap, NodeMap[i.v2], NodeMap[i.v1])
      BY <2>3, <3>2 DEF AccessInv, AllHeld
    <3>4. MergeSelf \/ MergeTo \/ MergeToReturn \/ MergeFrom \/ MergeFromReturn
      BY <1>4, <3>2 DEF Merge
    <3> QED BY <1>1, <3>1, <3>3, <3>4, HeldBySelf, HeldByTo, HeldByFrom, HeldByReturn
  <2>4. blockedMerges' = 0 => AllHeld'
    BY <1>1, <2>1, <2>3 DEF AllHeld, Access
  <2> QED BY <1>2, <2>2, <2>4 DEF AccessInv
<1> QED BY <1>3, <1>4

-----------------------------------------------------------------------------
(* Connected nodes of one level are one node; a level apart, they are neighbours. *)

\* The nodes that walking up from the pointer of n1, or down from n1, comes to: of
\* the level of n1 there is only n1 among them, and only its pointer of the next.
LEMMA ConnectedNodes ==
  ASSUME NEW lvl, Levelled(lvl), TypeOK, LevelInv(lvl), stack = <<>>,
         NEW n1 \in Value, NEW n2 \in Value, checkNodeConnectivity(n1, n2)
  PROVE  n2 = n1 \/ lvl[n2] < lvl[n1] \/ ToNodeMap[n2] = n1 \/ lvl[n2] > lvl[n1] + 1
<1> DEFINE DownClosed(S) == \A k \in S : ToNodeMap[k] \in S \cup {NoNode}
           UpClosed(S) == \A k \in S : FromNodeMap[k] \in S \cup {NoNode}
           down == {k \in Value : \A S \in SUBSET Value : n1 \in S /\ DownClosed(S) => k \in S}
           start == {FromNodeMap[n1]} \ {NoNode}
           up == {k \in Value : \A S \in SUBSET Value : start \subseteq S /\ UpClosed(S) => k \in S}
<1>1. \A k \in Value :
        /\ ToNodeMap[k] # NoNode => /\ ToNodeMap[k] \in Value /\ FromNodeMap[ToNodeMap[k]] = k
                                    /\ lvl[k] = lvl[ToNodeMap[k]] + 1
        /\ FromNodeMap[k] # NoNode => /\ FromNodeMap[k] \in Value /\ ToNodeMap[FromNodeMap[k]] = k
                                      /\ lvl[FromNodeMap[k]] = lvl[k] + 1
        /\ lvl[k] \in Nat /\ k # NoNode
  BY Quiescent, ValueAssumption DEF Levelled
<1>2. n1 \in down /\ DownClosed(down)
  <2>1. ASSUME NEW k \in down, ToNodeMap[k] # NoNode, NEW S \in SUBSET Value, n1 \in S, DownClosed(S)
        PROVE  ToNodeMap[k] \in S
    <3>1. k \in S
      BY <2>1
    <3> QED BY <2>1, <3>1
  <2>2. \A k \in down : ToNodeMap[k] # NoNode => ToNodeMap[k] \in Value
    BY <1>1
  <2> QED BY <2>1, <2>2
<1>3. start \subseteq up /\ UpClosed(up)
  <2>1. ASSUME NEW k \in up, FromNodeMap[k] # NoNode, NEW S \in SUBSET Value, start \subseteq S, UpClosed(S)
        PROVE  FromNodeMap[k] \in S
    <3>1. k \in S
      BY <2>1
    <3> QED BY <2>1, <3>1
  <2>2. \A k \in up : FromNodeMap[k] # NoNode => FromNodeMap[k] \in Value
    BY <1>1
  <2>3. start \subseteq Value
    BY <1>1
  <2> QED BY <2>1, <2>2, <2>3
<1>4. \A k \in down : k = n1 \/ (lvl[k] < lvl[n1] /\ FromNodeMap[k] \in down)
  <2> DEFINE S == {k \in down : k = n1 \/ (lvl[k] < lvl[n1] /\ FromNodeMap[k] \in down)}
  <2>1. S \in SUBSET Value /\ n1 \in S
    BY <1>2
  <2>2. DownClosed(S)
    <3> SUFFICES ASSUME NEW k \in S, ToNodeMap[k] # NoNode PROVE ToNodeMap[k] \in S
      OBVIOUS
    <3>1. /\ ToNodeMap[k] \in down /\ k \in down /\ ToNodeMap[k] \in Value
          /\ FromNodeMap[ToNodeMap[k]] = k /\ lvl[k] = lvl[ToNodeMap[k]] + 1
          /\ lvl[k] <= lvl[n1] /\ lvl[k] \in Nat /\ lvl[ToNodeMap[k]] \in Nat /\ lvl[n1] \in Nat
      BY <1>1, <1>2
    <3>2. lvl[ToNodeMap[k]] < lvl[n1]
      BY <3>1
    <3> QED BY <3>1, <3>2
  <2>3. \A k \in down : k \in S
    BY <2>1, <2>2
  <2> QED BY <2>3
<1>5. \A k \in up : k = FromNodeMap[n1] \/ (lvl[k] > lvl[n1] + 1 /\ ToNodeMap[k] \in up)
  <2> DEFINE S == {k \in up : k = FromNodeMap[n1] \/ (lvl[k] > lvl[n1] + 1 /\ ToNodeMap[k] \in up)}
  <2>1. S \in SUBSET Value /\ start \subseteq S
    BY <1>3
  <2>2. UpClosed(S)
    <3> SUFFICES ASSUME NEW k \in S, FromNodeMap[k] # NoNode PROVE FromNodeMap[k] \in S
      OBVIOUS
    <3>1. /\ FromNodeMap[k] \in up /\ k \in up /\ FromNodeMap[k] \in Value
          /\ ToNodeMap[FromNodeMap[k]] = k /\ lvl[FromNodeMap[k]] = lvl[k] + 1
          /\ lvl[k] >= lvl[n1] + 1 /\ lvl[k] \in Nat /\ lvl[FromNodeMap[k]] \in Nat /\ lvl[n1] \in Nat
      BY <1>1, <1>3
    <3>2. lvl[FromNodeMap[k]] > lvl[n1] + 1
      BY <3>1
    <3> QED BY <3>1, <3>2
  <2>3. \A k \in up : k \in S
    BY <2>1, <2>2
  <2> QED BY <2>3
<1>6. \A k \in down \cup up : {ToNodeMap[k], FromNodeMap[k]} \subseteq (down \cup up) \cup {NoNode}
  <2>1. ASSUME NEW k \in down
        PROVE  FromNodeMap[k] \in (down \cup up) \cup {NoNode}
    BY <1>3, <1>4
  <2>2. ASSUME NEW k \in up
        PROVE  ToNodeMap[k] \in (down \cup up) \cup {NoNode}
    <3>1. CASE k = FromNodeMap[n1]
      <4>1. ToNodeMap[k] = n1
        BY <1>1, <3>1
      <4> QED BY <1>2, <4>1
    <3> QED BY <1>5, <3>1
  <2> QED BY <1>2, <1>3, <2>1, <2>2
<1>7. n2 \in down \cup up
  <2> DEFINE S == down \cup up
  <2>1. S \in SUBSET Value /\ n1 \in S
    BY <1>2
  <2>2. \A k \in S : {ToNodeMap[k], FromNodeMap[k]} \subseteq S \cup {NoNode}
    BY <1>6
  <2> HIDE DEF S, down, up
  <2>3. n2 \in S
    BY <2>1, <2>2 DEF checkNodeConnectivity
  <2> QED BY <2>3 DEF S
<1>8. n2 \in down => n2 = n1 \/ lvl[n2] < lvl[n1]
  BY <1>4
<1>9. n2 \in up => n2 = FromNodeMap[n1] \/ lvl[n2] > lvl[n1] + 1
  BY <1>5
<1>10. n2 = FromNodeMap[n1] => ToNodeMap[n2] = n1
  BY <1>1
<1> QED BY <1>7, <1>8, <1>9, <1>10

LEMMA ConnectedNeighbours ==
  ASSUME NEW lvl, Levelled(lvl), TypeOK, LevelInv(lvl), stack = <<>>,
         NEW n1 \in Value, NEW n2 \in Value, lvl[n2] = lvl[n1] + 1,
         checkNodeConnectivity(n1, n2)
  PROVE  ToNodeMap[n2] = n1
<1>1. lvl[n1] \in Nat /\ lvl[n2] \in Nat /\ n2 # n1
  BY DEF Levelled
<1>2. n2 = n1 \/ lvl[n2] < lvl[n1] \/ ToNodeMap[n2] = n1 \/ lvl[n2] > lvl[n1] + 1
  BY ConnectedNodes
<1> QED BY <1>1, <1>2

LEMMA ConnectedAlike ==
  ASSUME NEW lvl, Levelled(lvl), TypeOK, LevelInv(lvl), stack = <<>>,
         NEW n1 \in Value, NEW n2 \in Value, lvl[n1] = lvl[n2],
         checkNodeConnectivity(n1, n2)
  PROVE  n1 = n2
<1>1. lvl[n1] \in Nat /\ lvl[n2] \in Nat /\ n1 # NoNode
  BY ValueAssumption DEF Levelled
<1>2. ToNodeMap[n2] # NoNode => lvl[n2] = lvl[ToNodeMap[n2]] + 1
  BY DEF LevelInv, Falling
<1>3. n2 = n1 \/ lvl[n2] < lvl[n1] \/ ToNodeMap[n2] = n1 \/ lvl[n2] > lvl[n1] + 1
  BY ConnectedNodes
<1> QED BY <1>1, <1>2, <1>3

-----------------------------------------------------------------------------
(* What the handlers do to the accesses. *)

LEMMA CallHandled ==
  ASSUME NEW lvl, Levelled(lvl), Inv, AccessInv, NEW i \in Calls, Handle(i),
         UNCHANGED blockedMerges,
         \A v \in Value : NodeMap[v] # NoNode => NodeMap'[v] = NodeMap[v],
         \A k \in Value : ToNodeMap[k] # NoNode => ToNodeMap'[k] = ToNodeMap[k],
         stack' = <<>> \/ \E n1, n2 \in Value : mergeNode(n1, n2),
         Accesses(i) =>
           /\ NodeMap'[i.v1] \in Value /\ NodeMap'[i.v2] \in Value
           /\ Held(stack', ToNodeMap', FromNodeMap', NodeMap'[i.v2], NodeMap'[i.v1])
  PROVE  AccessInv'
<1>1. stack = <<>> /\ done' = done \cup {i} /\ Len(stack) = 0 /\ TypeOK
  BY DEF Handle, Inv
<1>2. Merged'
  <2>1. CASE stack' = <<>>
    BY <2>1 DEF Merged
  <2>2. CASE \E n1, n2 \in Value : mergeNode(n1, n2)
    <3>1. PICK n1 \in Value, n2 \in Value : mergeNode(n1, n2)
      BY <2>2
    <3>2. stack' = <<Activation(n1, n2, "enter", NoNode, NoNode)>>
      BY <1>1, <3>1 DEF mergeNode
    <3>3. Len(stack') = 1 /\ stack'[1].at = "enter" /\ top'.at = "enter"
      BY <3>2 DEF Activation, top
    <3> QED BY <3>3 DEF Merged, Half
  <2> QED BY <2>1, <2>2
<1>3. ASSUME NEW k \in Calls, Access(k)
      PROVE  /\ NodeMap[k.v1] \in Value /\ NodeMap[k.v2] \in Value
             /\ NodeMap'[k.v1] = NodeMap[k.v1] /\ NodeMap'[k.v2] = NodeMap[k.v2]
             /\ blockedMerges = 0 => ToNodeMap'[NodeMap[k.v2]] = NodeMap[k.v1]
  <2>1. k.v1 \in Value /\ k.v2 \in Value
    BY <1>3, CallFields DEF Access, Accesses
  <2>2. /\ NodeMap[k.v1] \in Value /\ NodeMap[k.v2] \in Value
        /\ NodeMap'[k.v1] = NodeMap[k.v1] /\ NodeMap'[k.v2] = NodeMap[k.v2]
    BY <1>3, <2>1, ValueAssumption DEF AccessInv, Known
  <2>3. blockedMerges = 0 => ToNodeMap[NodeMap[k.v2]] = NodeMap[k.v1]
    BY <1>1, <1>3 DEF AccessInv, AllHeld, Held
  <2> QED BY <2>2, <2>3, ValueAssumption
<1>4. \A k \in Calls : Access(k)' => Access(k) \/ (k = i /\ Accesses(i))
  BY <1>1 DEF Access
<1>5. Known'
  <2> SUFFICES ASSUME NEW k \in Calls, Access(k)'
               PROVE  NodeMap'[k.v1] \in Value /\ NodeMap'[k.v2] \in Value
    BY DEF Known
  <2> QED BY <1>3, <1>4
<1>6. ASSUME blockedMerges' = 0
      PROVE  AllHeld'
  <2> SUFFICES ASSUME NEW k \in Calls, Access(k)'
               PROVE  Held(stack', ToNodeMap', FromNodeMap', NodeMap'[k.v2], NodeMap'[k.v1])
    BY DEF AllHeld
  <2>1. CASE Access(k)
    BY <1>3, <1>6, <2>1 DEF Held
  <2> QED BY <1>4, <2>1
<1> QED BY <1>2, <1>5, <1>6 DEF AccessInv

LEMMA NodesKept ==
  ASSUME NEW S
  PROVE  \A v \in Value : NodeMap[v] # NoNode => NodeMapWith(S)[v] = NodeMap[v]
BY DEF NodeMapWith

\* A load or store that is not connected leads to an edge or to a merge that makes one.
LEMMA PointToHolds ==
  ASSUME NEW lvl, TypeOK, LevelInv(lvl), stack = <<>>,
         NEW n1 \in Value, NEW n2 \in Value, PointTo(n1, n2)
  PROVE  /\ Held(stack', ToNodeMap', FromNodeMap', n2, n1)
         /\ \A k \in Value : ToNodeMap[k] # NoNode => ToNodeMap'[k] = ToNodeMap[k]
         /\ stack' = <<>> \/ \E k1, k2 \in Value : mergeNode(k1, k2)
<1>1. \A k \in Value : /\ ToNodeMap[k] # NoNode => ToNodeMap[k] \in Value
                       /\ FromNodeMap[k] # NoNode =>
                            FromNodeMap[k] \in Value /\ ToNodeMap[FromNodeMap[k]] = k
  BY Quiescent
<1>2. ASSUME NEW k1, NEW k2, mergeNode(k1, k2), UNCHANGED <<ToNodeMap, FromNodeMap>>,
             (k1 = n1 /\ k2 = ToNodeMap[n2]) \/ (k2 = n2 /\ ToNodeMap[k1] = n1)
      PROVE  Held(stack', ToNodeMap', FromNodeMap', n2, n1)
  <2>1. stack' = <<Activation(k1, k2, "enter", NoNode, NoNode)>>
    BY <1>2 DEF mergeNode
  <2>2. Len(stack') = 1 /\ stack'[1].at = "enter" /\ stack'[1].n1 = k1 /\ stack'[1].n2 = k2
    BY <2>1 DEF Activation
  <2>3. Owes(stack'[1], ToNodeMap', FromNodeMap', n2, n1)
    BY <1>2, <2>2 DEF Owes
  <2>4. 1 \in 1..Len(stack')
    BY <2>2
  <2> QED BY <2>3, <2>4 DEF Held
<1>3. CASE ToNodeMap[n2] # NoNode /\ mergeNode(n1, ToNodeMap[n2]) /\ UNCHANGED <<ToNodeMap, FromNodeMap>>
  BY <1>1, <1>2, <1>3
<1>4. CASE FromNodeMap[n1] # NoNode /\ mergeNode(FromNodeMap[n1], n2) /\ UNCHANGED <<ToNodeMap, FromNodeMap>>
  BY <1>1, <1>2, <1>4
<1>5. CASE ToNodeMap[n2] = NoNode /\ AddEdge(n2, n1) /\ UNCHANGED stack
  <2>1. \A k \in Value : ToNodeMap'[k] = IF k = n2 THEN n1 ELSE ToNodeMap[k]
    BY <1>5 DEF AddEdge, TypeOK
  <2> QED BY <1>5, <2>1 DEF Held
<1> QED BY <1>3, <1>4, <1>5 DEF PointTo

LEMMA StoreHolds ==
  ASSUME NEW lvl, Levelled(lvl), Inv, Inv', LevelInv(lvl), stack = <<>>,
         NEW v1 \in Value, NEW v2 \in Value, StoreInto(v1, v2), lvl[v2] = lvl[v1] + 1
  PROVE  /\ Held(stack', ToNodeMap', FromNodeMap', NodeMap'[v2], NodeMap'[v1])
         /\ NodeMap'[v1] \in Value /\ NodeMap'[v2] \in Value
         /\ \A v \in Value : NodeMap[v] # NoNode => NodeMap'[v] = NodeMap[v]
         /\ \A k \in Value : ToNodeMap[k] # NoNode => ToNodeMap'[k] = ToNodeMap[k]
         /\ stack' = <<>> \/ \E k1, k2 \in Value : mergeNode(k1, k2)
<1> DEFINE T == {v1, v2}
           n1 == NodeMapWith(T)[v1]
           n2 == NodeMapWith(T)[v2]
<1>1. /\ CreateNodes(T)
      /\ \/ checkNodeConnectivity(n1, n2) /\ UNCHANGED <<ToNodeMap, FromNodeMap, stack>>
         \/ PointTo(n1, n2)
  BY DEF StoreInto
<1>2. TypeOK /\ NodesLevelled(lvl) /\ T \in SUBSET Value /\ v1 \in T /\ v2 \in T
  BY DEF Inv, LevelInv
<1> HIDE DEF T
<1>3. /\ n1 \in Value /\ lvl[n1] = lvl[v1]
      /\ n2 \in Value /\ lvl[n2] = lvl[v2]
  BY <1>1, <1>2, CreatedLevels
<1>4. NodeMap' = NodeMapWith(T)
  BY <1>1 DEF CreateNodes
<1>5. NodeMap'[v1] = n1 /\ NodeMap'[v2] = n2
  BY <1>4
<1>6. \A v \in Value : NodeMap[v] # NoNode => NodeMap'[v] = NodeMap[v]
  BY <1>4, NodesKept
<1> HIDE DEF n1, n2
<1>7. CASE checkNodeConnectivity(n1, n2) /\ UNCHANGED <<ToNodeMap, FromNodeMap, stack>>
  <2>1. ToNodeMap[n2] = n1
    BY <1>2, <1>3, <1>7, ConnectedNeighbours
  <2>2. Held(stack', ToNodeMap', FromNodeMap', n2, n1)
    BY <1>7, <2>1 DEF Held
  <2> QED BY <1>3, <1>5, <1>6, <1>7, <2>2
<1>8. CASE PointTo(n1, n2)
  <2>1. /\ Held(stack', ToNodeMap', FromNodeMap', n2, n1)
        /\ \A k \in Value : ToNodeMap[k] # NoNode => ToNodeMap'[k] = ToNodeMap[k]
        /\ stack' = <<>> \/ \E k1, k2 \in Value : mergeNode(k1, k2)
    BY <1>2, <1>3, <1>8, PointToHolds
  <2> QED BY <1>3, <1>5, <1>6, <2>1
<1> QED BY <1>1, <1>7, <1>8

LEMMA MoveOldNodes ==
  ASSUME Inv, stack = <<>>, NEW v1 \in Value, NEW v2 \in Value, NEW S \in SUBSET Value, Move(v1, v2, S)
  PROVE  /\ \A v \in Value : NodeMap[v] # NoNode => NodeMap'[v] = NodeMap[v]
         /\ UNCHANGED <<ToNodeMap, blockedMerges>>
         /\ stack' = <<>> \/ \E k1, k2 \in Value : mergeNode(k1, k2)
<1> DEFINE T == S \cup {v2}
           nodes == NodeMapWith(T)
<1>1. TypeOK /\ T \in SUBSET Value /\ v2 \in T
  BY DEF Inv
<1>2. nodes \in [Value -> Value \cup {NoNode}] /\ nodes[v2] \in Value
  BY <1>1, NodeMapWithType
<1>3. /\ UNCHANGED <<ToNodeMap, blockedMerges>>
      /\ \/ nodes[v1] = NoNode /\ NodeMap' = [nodes EXCEPT ![v1] = nodes[v2]] /\ UNCHANGED stack
         \/ NodeMap' = nodes /\ UNCHANGED stack
         \/ nodes[v1] # NoNode /\ NodeMap' = nodes /\ mergeNode(nodes[v1], nodes[v2])
  BY DEF Move, CreateNodes
<1>4. \A v \in Value : NodeMap[v] # NoNode => nodes[v] = NodeMap[v]
  BY NodesKept
<1> HIDE DEF nodes
<1>5. \A v \in Value : NodeMap[v] # NoNode => NodeMap'[v] = NodeMap[v]
  BY <1>2, <1>3, <1>4
<1> QED BY <1>2, <1>3, <1>5

LEMMA AccessHandlerStep ==
  ASSUME NEW lvl, Levelled(lvl), Inv, Inv', LevelInv(lvl), AccessInv, NEW i \in Calls, HandleInst(i)
  PROVE  AccessInv'
<1>1. stack = <<>> /\ Handle(i) /\ TypeOK /\ NodesLevelled(lvl)
  BY DEF HandleInst, HandleAlloc, HandleLoad, HandleStoreInst, HandleStore, HandleMove,
         HandleReturnInst, HandleCai, Handle, Inv, LevelInv
<1>2. /\ i.op = "load" => lvl[i.v2] = lvl[i.v1] + 1
      /\ i.op \in {"store", "init"} => i.v1 \in ConstantData \/ lvl[i.v2] = lvl[i.v1] + 1
  BY DEF Levelled
<1>3. ASSUME NEW S, CreateNodes(S), UNCHANGED <<ToNodeMap, blockedMerges, stack>>,
             ~Accesses(i)
      PROVE  AccessInv'
  <2>1. \A v \in Value : NodeMap[v] # NoNode => NodeMap'[v] = NodeMap[v]
    BY <1>3, NodesKept DEF CreateNodes
  <2> QED BY <1>1, <1>3, <2>1, CallHandled
<1>4. ASSUME SkipStore, ~Accesses(i)
      PROVE  AccessInv'
  <2>1. UNCHANGED <<NodeMap, ToNodeMap, blockedMerges, stack>>
    BY <1>4 DEF SkipStore, graph
  <2> QED BY <1>1, <1>4, <2>1, CallHandled
<1>5. ASSUME NEW v1 \in Value, NEW v2 \in Value, NEW S \in SUBSET Value, Move(v1, v2, S),
             ~Accesses(i)
      PROVE  AccessInv'
  <2>1. /\ \A v \in Value : NodeMap[v] # NoNode => NodeMap'[v] = NodeMap[v]
        /\ UNCHANGED <<ToNodeMap, blockedMerges>>
        /\ stack' = <<>> \/ \E k1, k2 \in Value : mergeNode(k1, k2)
    BY <1>1, <1>5, MoveOldNodes
  <2> QED BY <1>1, <1>5, <2>1, CallHandled
<1>6. ASSUME i.v1 \in Value, i.v2 \in Value, i.v1 \notin ConstantData, StoreInto(i.v1, i.v2),
             i.op \in {"store", "init"}
      PROVE  AccessInv'
  <2>1. UNCHANGED blockedMerges /\ lvl[i.v2] = lvl[i.v1] + 1
    BY <1>2, <1>6 DEF StoreInto
  <2>2. /\ Held(stack', ToNodeMap', FromNodeMap', NodeMap'[i.v2], NodeMap'[i.v1])
        /\ NodeMap'[i.v1] \in Value /\ NodeMap'[i.v2] \in Value
        /\ \A v \in Value : NodeMap[v] # NoNode => NodeMap'[v] = NodeMap[v]
        /\ \A k \in Value : ToNodeMap[k] # NoNode => ToNodeMap'[k] = ToNodeMap[k]
        /\ stack' = <<>> \/ \E k1, k2 \in Value : mergeNode(k1, k2)
    BY <1>1, <1>6, <2>1, StoreHolds
  <2> QED BY <1>1, <2>1, <2>2, CallHandled
<1>7. CASE HandleAlloc(i)
  BY <1>3, <1>7 DEF HandleAlloc, Accesses
<1>8. CASE HandleLoad(i)
  <2> DEFINE T == {i.v1, i.v2}
             n1 == NodeMapWith(T)[i.v1]
             n2 == NodeMapWith(T)[i.v2]
  <2>1. /\ i.v1 \in Value /\ i.v2 \in Value /\ CreateNodes(T) /\ PointTo(n1, n2)
        /\ T \in SUBSET Value /\ i.v1 \in T /\ i.v2 \in T /\ UNCHANGED blockedMerges
    BY <1>8, CallFields DEF HandleLoad
  <2> HIDE DEF T
  <2>2. n1 \in Value /\ n2 \in Value
    BY <1>1, <2>1, CreatedLevels
  <2>3. NodeMap' = NodeMapWith(T)
    BY <2>1 DEF CreateNodes
  <2>4. /\ NodeMap'[i.v1] = n1 /\ NodeMap'[i.v2] = n2
        /\ \A v \in Value : NodeMap[v] # NoNode => NodeMap'[v] = NodeMap[v]
    BY <2>3, NodesKept
  <2> HIDE DEF n1, n2
  <2>5. /\ Held(stack', ToNodeMap', FromNodeMap', n2, n1)
        /\ \A k \in Value : ToNodeMap[k] # NoNode => ToNodeMap'[k] = ToNodeMap[k]
        /\ stack' = <<>> \/ \E k1, k2 \in Value : mergeNode(k1, k2)
    BY <1>1, <2>1, <2>2, PointToHolds
  <2> QED BY <1>1, <2>1, <2>2, <2>4, <2>5, CallHandled
<1>9. CASE HandleStoreInst(i)
  <2>1. i.op = "store" /\ i.v1 \in Value /\ i.v2 \in Value
    BY <1>9, CallFields DEF HandleStoreInst
  <2>2. (i.v1 \in ConstantData /\ SkipStore) \/ (i.v1 \notin ConstantData /\ StoreInto(i.v1, i.v2))
    BY <1>9 DEF HandleStoreInst
  <2> QED BY <1>4, <1>6, <2>1, <2>2 DEF Accesses
<1>10. CASE HandleStore(i)
  <2>1. i.op = "init" /\ i.v1 \in Value /\ i.v2 \in Value
    BY <1>10, CallFields DEF HandleStore
  <2>2. (i.v1 \in ConstantData /\ SkipStore) \/ (i.v1 \notin ConstantData /\ StoreInto(i.v1, i.v2))
    BY <1>10 DEF HandleStore
  <2> QED BY <1>4, <1>6, <2>1, <2>2 DEF Accesses
<1>11. CASE HandleMove(i)
  <2>1. i.op = "move" /\ i.v1 \in Value /\ i.v2 \in Value /\ Move(i.v1, i.v2, {})
    BY <1>11, CallFields DEF HandleMove
  <2> QED BY <1>5, <2>1 DEF Accesses
<1>12. CASE HandleReturnInst(i)
  <2>1. i.op = "ret" /\ i.v1 \in Value /\ i.v2 \in Value
    BY <1>12, CallFields DEF HandleReturnInst
  <2>2. SkipStore \/ Move(i.v1, i.v2, {})
    BY <1>12 DEF HandleReturnInst
  <2> QED BY <1>4, <1>5, <2>1, <2>2 DEF Accesses
<1>13. CASE HandleCai(i)
  <2> DEFINE T == {i.cai} \cup i.args
  <2>1. CASE i.op = "call" /\ CreateNodes(T) /\ UNCHANGED <<TBAATag, ToNodeMap, FromNodeMap, symbolGet, blockedMerges, stack>>
    BY <1>3, <2>1 DEF Accesses
  <2>2. CASE i.op = "copycall" /\ Move(i.v1, i.v2, T)
    <3>1. T \in SUBSET Value /\ i.v1 \in Value /\ i.v2 \in Value
      BY <2>2, CallFields
    <3> HIDE DEF T
    <3> QED BY <1>5, <2>2, <3>1 DEF Accesses
  <2>3. CASE i.op = "symbol_get" /\ Move(i.cai, i.f, T)
    <3>1. T \in SUBSET Value /\ i.cai \in Value /\ i.f \in Value
      BY <2>3, CallFields, ValueAssumption
    <3> HIDE DEF T
    <3> QED BY <1>5, <2>3, <3>1 DEF Accesses
  <2> QED BY <1>13, <2>1, <2>2, <2>3 DEF HandleCai
<1> QED BY <1>7, <1>8, <1>9, <1>10, <1>11, <1>12, <1>13 DEF HandleInst

\* In a program with pointer levels every load and store handled is accounted for
\* at every step: by an edge, or by a frame that has yet to make or restore it.
THEOREM AccessInvariant ==
  ASSUME NEW CONSTANT lvl, Levelled(lvl)
  PROVE  Spec => []AccessInv
<1>1. Init => AccessInv
  BY DEF Init, AccessInv, Merged, Known, AllHeld, Access
<1>2. Inv /\ Inv' /\ LevelInv(lvl) /\ AccessInv /\ [Next]_vars => AccessInv'
  <2> SUFFICES ASSUME Inv, Inv', LevelInv(lvl), AccessInv, [Next]_vars
               PROVE  AccessInv'
    OBVIOUS
  <2>1. CASE UNCHANGED vars
    <3>1. UNCHANGED <<NodeMap, aliasclass, ToNodeMap, FromNodeMap, stack, blockedMerges, done>>
      BY <2>1 DEF vars, graph
    <3>2. \A i : Access(i)' <=> Access(i)
      BY <3>1 DEF Access
    <3> QED BY <3>1, <3>2 DEF AccessInv, Merged, Known, AllHeld, top
  <2> QED BY <2>1, AccessMergeStep, AccessHandlerStep DEF Next
<1> QED BY <1>1, <1>2, Invariance, LevelInvariant, PTL DEF Spec

\* In a program with pointer levels, unless TBAA blocked a merge, the pointer of
\* every load or store handled so far points to the class of the value loaded or
\* stored whenever no merge is in progress, whatever was merged since.
THEOREM AccessesAlwaysResolved ==
  ASSUME NEW CONSTANT lvl, Levelled(lvl)
  PROVE  Spec => []AccessesResolved
<1>1. Inv /\ AccessInv => AccessesResolved
  <2> SUFFICES ASSUME Inv, AccessInv, stack = <<>>, blockedMerges = 0, NEW i \in done,
                      i.op \in {"load", "store", "init"}, i.v1 \notin ConstantData
               PROVE  ToNodeMap[NodeMap[i.v2]] = NodeMap[i.v1]
    BY DEF AccessesResolved, Quiet
  <2>1. i \in Calls /\ Access(i) /\ Len(stack) = 0
    BY DEF Access, Accesses, Inv, TypeOK
  <2>2. Held(stack, ToNodeMap, FromNodeMap, NodeMap[i.v2], NodeMap[i.v1])
    BY <2>1 DEF AccessInv, AllHeld
  <2> QED BY <2>1, <2>2 DEF Held
<1> QED BY <1>1, Invariance, AccessInvariant, PTL

-----------------------------------------------------------------------------
(* What a handler does, by the kind of its call. *)

\* A call that makes a copy, and the values that it names.
MoveCall(i) == i.op \in {"move", "copycall", "symbol_get"} \/ (i.op = "ret" /\ i.v2 \notin ConstantData)
Assigned(i) == IF i.op = "symbol_get" THEN i.cai ELSE i.v1
Source(i) == IF i.op = "symbol_get" THEN i.f ELSE i.v2
Passed(i) == IF i.op \in {"copycall", "symbol_get"} THEN {i.cai} \cup i.args ELSE {}

\* The values that get a node of their own unless they have one.
Creates(i) ==
  IF MoveCall(i) THEN Passed(i) \cup {Source(i)}
  ELSE IF Accesses(i) THEN {i.v1, i.v2}
  ELSE IF i.op = "alloca" THEN {i.v1}
  ELSE IF i.op = "call" THEN {i.cai} \cup i.args ELSE {}

LEMMA CallValues ==
  ASSUME NEW i \in Calls
  PROVE  /\ Creates(i) \in SUBSET Value
         /\ MoveCall(i) => /\ Assigned(i) \in Value /\ Source(i) \in Value /\ Passed(i) \in SUBSET Value
                           /\ Creates(i) = Passed(i) \cup {Source(i)} /\ ~Accesses(i)
         /\ Accesses(i) => i.v1 \in Value /\ i.v2 \in Value /\ Creates(i) = {i.v1, i.v2}
<1>1. /\ i.op \in {"alloca", "load", "store", "init", "move", "ret", "copycall"} => i.v1 \in Value
      /\ i.op \in {"load", "store", "init", "move", "ret", "copycall"} => i.v2 \in Value
      /\ i.op \in {"call", "copycall", "symbol_get"} => i.cai \in Value /\ i.args \in SUBSET Value
      /\ i.op = "symbol_get" => i.f \in Value
  BY CallFields, ValueAssumption
<1>2. MoveCall(i) => Assigned(i) \in Value /\ Source(i) \in Value /\ Passed(i) \in SUBSET Value
  BY <1>1 DEF MoveCall, Assigned, Source, Passed
<1>3. Accesses(i) => i.v1 \in Value /\ i.v2 \in Value
  BY <1>1 DEF Accesses
<1>4. MoveCall(i) => ~Accesses(i)
  BY DEF MoveCall, Accesses
<1>5. CASE MoveCall(i)
  BY <1>2, <1>4, <1>5 DEF Creates
<1>6. CASE ~MoveCall(i) /\ Accesses(i)
  <2>1. Creates(i) = {i.v1, i.v2}
    BY <1>6 DEF Creates, Accesses
  <2> QED BY <1>3, <1>6, <2>1
<1>7. CASE ~MoveCall(i) /\ ~Accesses(i)
  <2>1. \/ i.op = "alloca" /\ Creates(i) = {i.v1}
        \/ i.op = "call" /\ Creates(i) = {i.cai} \cup i.args
        \/ Creates(i) = {}
    BY <1>7 DEF Creates
  <2> QED BY <1>1, <1>7, <2>1
<1> QED BY <1>5, <1>6, <1>7

AccessHandled(i) ==
  /\ Accesses(i)
  /\ CreateNodes(Creates(i))
  /\ \/ UNCHANGED <<ToNodeMap, FromNodeMap, stack>>
     \/ PointTo(NodeMapWith(Creates(i))[i.v1], NodeMapWith(Creates(i))[i.v2])
MoveHandled(i) == MoveCall(i) /\ Move(Assigned(i), Source(i), Passed(i))
OtherHandled(i) ==
  /\ ~MoveCall(i) /\ ~Accesses(i)
  /\ NodeMap' = NodeMapWith(Creates(i))
  /\ UNCHANGED <<ToNodeMap, FromNodeMap, stack>>

LEMMA HandlerKinds ==
  ASSUME TypeOK, NEW i \in Calls, HandleInst(i)
  PROVE  /\ stack = <<>> /\ done' = done \cup {i} /\ UNCHANGED blockedMerges
         /\ AccessHandled(i) \/ MoveHandled(i) \/ OtherHandled(i)
<1>1. ASSUME SkipStore, Creates(i) = {} PROVE NodeMap' = NodeMapWith(Creates(i))
  BY <1>1 DEF SkipStore, graph, NodeMapWith, TypeOK
<1>2. CASE HandleAlloc(i)
  <2>1. ~MoveCall(i) /\ ~Accesses(i) /\ Creates(i) = {i.v1}
    BY <1>2 DEF HandleAlloc, MoveCall, Accesses, Creates
  <2> QED BY <1>2, <2>1 DEF HandleAlloc, Handle, CreateNodes, OtherHandled
<1>3. CASE HandleLoad(i)
  <2>1. Accesses(i) /\ Creates(i) = {i.v1, i.v2}
    BY <1>3, CallValues DEF HandleLoad, Accesses
  <2> QED BY <1>3, <2>1 DEF HandleLoad, Handle, AccessHandled
<1>4. ASSUME Handle(i), i.op \in {"store", "init"}, UNCHANGED blockedMerges,
             \/ i.v1 \in ConstantData /\ SkipStore
             \/ i.v1 \notin ConstantData /\ StoreInto(i.v1, i.v2)
      PROVE  /\ stack = <<>> /\ done' = done \cup {i} /\ UNCHANGED blockedMerges
             /\ AccessHandled(i) \/ OtherHandled(i)
  <2>1. CASE i.v1 \in ConstantData /\ SkipStore
    <3>1. ~MoveCall(i) /\ ~Accesses(i) /\ Creates(i) = {}
      BY <1>4, <2>1 DEF MoveCall, Accesses, Creates
    <3>2. NodeMap' = NodeMapWith(Creates(i))
      BY <1>1, <2>1, <3>1
    <3> QED BY <1>4, <2>1, <3>1, <3>2 DEF Handle, SkipStore, graph, OtherHandled
  <2>2. CASE i.v1 \notin ConstantData /\ StoreInto(i.v1, i.v2)
    <3>1. Accesses(i) /\ Creates(i) = {i.v1, i.v2}
      BY <1>4, <2>2, CallValues DEF Accesses
    <3> QED BY <1>4, <2>2, <3>1 DEF Handle, StoreInto, AccessHandled
  <2> QED BY <1>4, <2>1, <2>2
<1>5. CASE HandleStoreInst(i)
  <2>1. i.op \in {"store", "init"} /\ Handle(i) /\ UNCHANGED blockedMerges
        /\ ((i.v1 \in ConstantData /\ SkipStore) \/ (i.v1 \notin ConstantData /\ StoreInto(i.v1, i.v2)))
    <3>1. i.op \in {"store", "init"} /\ Handle(i)
          /\ ((i.v1 \in ConstantData /\ SkipStore) \/ (i.v1 \notin ConstantData /\ StoreInto(i.v1, i.v2)))
      BY <1>5 DEF HandleStoreInst
    <3>2. UNCHANGED blockedMerges
      BY <3>1 DEF SkipStore, StoreInto
    <3> QED BY <3>1, <3>2
  <2> QED BY <1>4, <2>1
<1>6. CASE HandleStore(i)
  <2>1. i.op \in {"store", "init"} /\ Handle(i) /\ UNCHANGED blockedMerges
        /\ ((i.v1 \in ConstantData /\ SkipStore) \/ (i.v1 \notin ConstantData /\ StoreInto(i.v1, i.v2)))
    <3>1. i.op \in {"store", "init"} /\ Handle(i)
          /\ ((i.v1 \in ConstantData /\ SkipStore) \/ (i.v1 \notin ConstantData /\ StoreInto(i.v1, i.v2)))
      BY <1>6 DEF HandleStore
    <3>2. UNCHANGED blockedMerges
      BY <3>1 DEF SkipStore, StoreInto
    <3> QED BY <3>1, <3>2
  <2> QED BY <1>4, <2>1
<1>7. CASE HandleMove(i)
  <2>1. MoveCall(i) /\ Assigned(i) = i.v1 /\ Source(i) = i.v2 /\ Passed(i) = {}
    BY <1>7 DEF HandleMove, MoveCall, Assigned, Source, Passed
  <2> QED BY <1>7, <2>1 DEF HandleMove, Handle, Move, MoveHandled
<1>8. CASE HandleReturnInst(i)
  <2>1. CASE i.v2 \in ConstantData /\ SkipStore
    <3>1. ~MoveCall(i) /\ ~Accesses(i) /\ Creates(i) = {}
      BY <1>8, <2>1 DEF HandleReturnInst, MoveCall, Accesses, Creates
    <3>2. NodeMap' = NodeMapWith(Creates(i))
      BY <1>1, <2>1, <3>1
    <3> QED BY <1>8, <2>1, <3>1, <3>2 DEF HandleReturnInst, Handle, SkipStore, graph, OtherHandled
  <2>2. CASE i.v2 \notin ConstantData /\ Move(i.v1, i.v2, {})
    <3>1. MoveCall(i) /\ Assigned(i) = i.v1 /\ Source(i) = i.v2 /\ Passed(i) = {}
      BY <1>8, <2>2 DEF HandleReturnInst, MoveCall, Assigned, Source, Passed
    <3> QED BY <1>8, <2>2, <3>1 DEF HandleReturnInst, Handle, Move, MoveHandled
  <2> QED BY <1>8, <2>1, <2>2 DEF HandleReturnInst
<1>9. CASE HandleCai(i)
  <2>1. CASE i.op = "call"
    <3>1. ~MoveCall(i) /\ ~Accesses(i) /\ Creates(i) = {i.cai} \cup i.args
      BY <2>1 DEF MoveCall, Accesses, Creates
    <3> QED BY <1>9, <2>1, <3>1 DEF HandleCai, Handle, CreateNodes, OtherHandled
  <2>2. CASE i.op = "copycall"
    <3>1. MoveCall(i) /\ Assigned(i) = i.v1 /\ Source(i) = i.v2 /\ Passed(i) = {i.cai} \cup i.args
      BY <2>2 DEF MoveCall, Assigned, Source, Passed
    <3> QED BY <1>9, <2>2, <3>1 DEF HandleCai, Handle, Move, MoveHandled
  <2>3. CASE i.op = "symbol_get"
    <3>1. MoveCall(i) /\ Assigned(i) = i.cai /\ Source(i) = i.f /\ Passed(i) = {i.cai} \cup i.args
      BY <2>3 DEF MoveCall, Assigned, Source, Passed
    <3> QED BY <1>9, <2>3, <3>1 DEF HandleCai, Handle, Move, MoveHandled
  <2> QED BY <1>9, <2>1, <2>2, <2>3 DEF HandleCai
<1> QED BY <1>2, <1>3, <1>5, <1>6, <1>7, <1>8, <1>9 DEF HandleInst

-----------------------------------------------------------------------------
(* Copies. *)

MoveInv ==
  \A i \in done : MoveCall(i) =>
    /\ NodeMap[Assigned(i)] # NoNode /\ NodeMap[Source(i)] # NoNode
    /\ blockedMerges = 0 =>
         \/ NodeMap[Assigned(i)] = NodeMap[Source(i)]
         \/ /\ Len(stack) = 1 /\ stack[1].at = "enter"
            /\ stack[1].n1 = NodeMap[Assigned(i)] /\ stack[1].n2 = NodeMap[Source(i)]

\* The nodes of values that had one stay the same in a handler, what is created is
\* a node of its own, and a copy that had no node gets that of its source.
NodesAfter(i, old, new) ==
  /\ \A v \in Value : old[v] # NoNode => new[v] = old[v]
  /\ \A v \in Value : old[v] = NoNode =>
       new[v] = IF v \in Creates(i) THEN v
                ELSE IF MoveCall(i) /\ v = Assigned(i) THEN new[Source(i)] ELSE NoNode

LEMMA HandledNodes ==
  ASSUME TypeOK, NEW i \in Calls, HandleInst(i)
  PROVE  NodesAfter(i, NodeMap, NodeMap')
<1> DEFINE T == Creates(i)
           nodes == NodeMapWith(T)
<1>1. \A v \in Value : nodes[v] = IF v \in T /\ NodeMap[v] = NoNode THEN v ELSE NodeMap[v]
  BY DEF NodeMapWith
<1>2. nodes \in [Value -> Value \cup {NoNode}]
  BY CallValues, NodeMapWithType
<1>3. CASE AccessHandled(i) \/ OtherHandled(i)
  <2>1. NodeMap' = nodes /\ ~MoveCall(i)
    BY <1>3, CallValues DEF AccessHandled, OtherHandled, CreateNodes
  <2> HIDE DEF nodes, T
  <2>2. \A v \in Value : NodeMap'[v] = IF v \in T /\ NodeMap[v] = NoNode THEN v ELSE NodeMap[v]
    BY <1>1, <2>1
  <2> QED BY <2>1, <2>2 DEF NodesAfter, T
<1>4. CASE MoveHandled(i)
  <2>1. /\ MoveCall(i) /\ Assigned(i) \in Value /\ Source(i) \in Value
        /\ T = Passed(i) \cup {Source(i)} /\ Source(i) \in T
    BY <1>4, CallValues DEF MoveHandled
  <2>2. \/ nodes[Assigned(i)] = NoNode /\ NodeMap' = [nodes EXCEPT ![Assigned(i)] = nodes[Source(i)]]
        \/ nodes[Assigned(i)] # NoNode /\ NodeMap' = nodes
    BY <1>4, <2>1 DEF MoveHandled, Move, CreateNodes
  <2> HIDE DEF nodes, T
  <2>3. nodes[Source(i)] \in Value /\ nodes[Source(i)] # NoNode
    BY <1>1, <1>2, <2>1, ValueAssumption
  <2>4. CASE nodes[Assigned(i)] = NoNode /\ NodeMap' = [nodes EXCEPT ![Assigned(i)] = nodes[Source(i)]]
    <3>1. /\ Assigned(i) \notin T /\ NodeMap[Assigned(i)] = NoNode /\ Assigned(i) # Source(i)
      BY <1>1, <2>1, <2>3, <2>4, ValueAssumption
    <3>2. \A v \in Value : NodeMap'[v] = IF v = Assigned(i) THEN nodes[Source(i)] ELSE nodes[v]
      BY <1>2, <2>4
    <3> QED BY <1>1, <2>1, <3>1, <3>2 DEF NodesAfter, T
  <2>5. CASE nodes[Assigned(i)] # NoNode /\ NodeMap' = nodes
    <3>1. NodeMap[Assigned(i)] = NoNode => Assigned(i) \in T
      BY <1>1, <2>1, <2>5
    <3> QED BY <1>1, <2>1, <2>5, <3>1 DEF NodesAfter, T
  <2> QED BY <2>2, <2>4, <2>5
<1> QED BY <1>3, <1>4, HandlerKinds

\* All that the call names has a node then.
LEMMA HandledBorn ==
  ASSUME NEW i \in Calls, NEW old \in [Value -> Value \cup {NoNode}],
         NEW new \in [Value -> Value \cup {NoNode}], NodesAfter(i, old, new)
  PROVE  /\ \A v \in Creates(i) : new[v] \in Value
         /\ MoveCall(i) => new[Assigned(i)] \in Value /\ new[Source(i)] \in Value
         /\ Accesses(i) => new[i.v1] \in Value /\ new[i.v2] \in Value
<1>1. \A v \in Creates(i) : v \in Value /\ new[v] # NoNode
  BY CallValues, ValueAssumption DEF NodesAfter
<1>2. MoveCall(i) => new[Source(i)] # NoNode
  BY <1>1, CallValues
<1>3. MoveCall(i) => new[Assigned(i)] # NoNode
  BY <1>1, <1>2, CallValues DEF NodesAfter
<1> QED BY <1>1, <1>2, <1>3, CallValues

LEMMA MergeNodes ==
  ASSUME Inv, Merge
  PROVE  /\ UNCHANGED done
         /\ \A v, w \in Value : NodeMap[v] = NodeMap[w] => NodeMap'[v] = NodeMap'[w]
         /\ \A v \in Value : NodeMap[v] # NoNode <=> NodeMap'[v] # NoNode
<1>1. UNCHANGED done
  BY DEF Merge, MergeBlocked, MergeSelf, MergeValues, MergeTo, MergeToReturn, MergeFrom,
         MergeFromReturn, Running
<1>2. CASE MergeValues
  <2>1. TypeOK /\ Partition /\ stack # <<>> /\ stack \in Seq(Frame)
    BY <1>2 DEF Inv, TypeOK, MergeValues, Running
  <2>2. top.n1 \in Value /\ top.n2 \in Value
    BY <2>1, TopType DEF Frame
  <2>3. \A v \in Value : NodeMap'[v] = IF NodeMap[v] = top.n1 THEN top.n2 ELSE NodeMap[v]
    BY <1>2, <2>1, <2>2 DEF MergeValues, Partition
  <2> QED BY <1>1, <2>2, <2>3, ValueAssumption
<1>3. CASE UNCHANGED NodeMap
  BY <1>1, <1>3
<1> QED BY <1>2, <1>3 DEF Merge, MergeBlocked, MergeSelf, MergeTo, MergeToReturn, MergeFrom,
                          MergeFromReturn, graph

LEMMA MoveMergeStep ==
  ASSUME Inv, MoveInv, Merge
  PROVE  MoveInv'
<1>1. TypeOK /\ Partition /\ stack # <<>> /\ stack \in Seq(Frame)
  BY DEF Inv, TypeOK, Merge, MergeBlocked, MergeSelf, MergeValues, MergeTo, MergeToReturn, MergeFrom,
         MergeFromReturn, Running
<1>2. /\ UNCHANGED done
      /\ \A v, w \in Value : NodeMap[v] = NodeMap[w] => NodeMap'[v] = NodeMap'[w]
      /\ \A v \in Value : NodeMap[v] # NoNode <=> NodeMap'[v] # NoNode
  BY MergeNodes
<1>3. blockedMerges' = 0 => blockedMerges = 0 /\ ~MergeBlocked
  <2>1. MergeBlocked => blockedMerges' # 0
    BY <1>1 DEF MergeBlocked, TypeOK
  <2>2. ~MergeBlocked => UNCHANGED blockedMerges
    BY DEF Merge, MergeSelf, MergeValues, MergeTo, MergeToReturn, MergeFrom, MergeFromReturn
  <2> QED BY <2>1, <2>2
<1> SUFFICES ASSUME NEW i \in done, MoveCall(i)
             PROVE  /\ NodeMap'[Assigned(i)] # NoNode /\ NodeMap'[Source(i)] # NoNode
                    /\ blockedMerges' = 0 => NodeMap'[Assigned(i)] = NodeMap'[Source(i)]
                         \/ /\ Len(stack') = 1 /\ stack'[1].at = "enter"
                            /\ stack'[1].n1 = NodeMap'[Assigned(i)] /\ stack'[1].n2 = NodeMap'[Source(i)]
  BY <1>2 DEF MoveInv
<1> DEFINE a == Assigned(i)
           s == Source(i)
<1>4. a \in Value /\ s \in Value /\ NodeMap[a] # NoNode /\ NodeMap[s] # NoNode
  BY <1>1, CallValues DEF MoveInv, TypeOK
<1>5. CASE NodeMap[a] = NodeMap[s]
  BY <1>2, <1>4, <1>5
<1>6. CASE blockedMerges' = 0 /\ NodeMap[a] # NodeMap[s]
  <2>1. top.at = "enter" /\ top.n1 = NodeMap[a] /\ top.n2 = NodeMap[s]
    BY <1>3, <1>6 DEF MoveInv, top
  <2>2. MergeValues
    BY <1>3, <1>6, <2>1 DEF Merge, MergeSelf, MergeTo, MergeToReturn, MergeFrom, MergeFromReturn, Running
  <2>3. top.n1 \in Value /\ top.n2 \in Value
    BY <1>1, TopType DEF Frame
  <2>4. \A v \in Value : NodeMap'[v] = IF NodeMap[v] = top.n1 THEN top.n2 ELSE NodeMap[v]
    BY <1>1, <2>2, <2>3 DEF MergeValues, Partition
  <2> QED BY <1>2, <1>4, <2>1, <2>4
<1> QED BY <1>2, <1>4, <1>5, <1>6

LEMMA MoveUnites ==
  ASSUME NEW lvl, Levelled(lvl), Inv, LevelInv(lvl), NEW i \in Calls, HandleInst(i), MoveHandled(i)
  PROVE  \/ NodeMap'[Assigned(i)] = NodeMap'[Source(i)]
         \/ stack' = <<Activation(NodeMap'[Assigned(i)], NodeMap'[Source(i)], "enter", NoNode, NoNode)>>
<1> DEFINE T == Creates(i)
           nodes == NodeMapWith(T)
           a == Assigned(i)
           s == Source(i)
<1>1. /\ TypeOK /\ MoveCall(i) /\ a \in Value /\ s \in Value
      /\ T = Passed(i) \cup {s} /\ s \in T /\ stack = <<>>
  BY HandlerKinds, CallValues DEF MoveHandled, Inv
<1>2. nodes \in [Value -> Value \cup {NoNode}] /\ nodes[s] \in Value
  BY <1>1, CallValues, NodeMapWithType
<1>3. nodes[a] # NoNode => lvl[nodes[a]] = lvl[nodes[s]]
  <2>1. \A v \in Value : nodes[v] = v \/ (nodes[v] = NodeMap[v])
    BY DEF NodeMapWith
  <2>2. \A v \in Value : nodes[v] # NoNode => lvl[nodes[v]] = lvl[v]
    BY <2>1 DEF LevelInv, NodesLevelled
  <2>3. lvl[a] = lvl[s]
    BY <1>1 DEF Levelled, MoveCall, Assigned, Source
  <2> HIDE DEF nodes, a, s
  <2> QED BY <1>1, <1>2, <2>2, <2>3, ValueAssumption
<1>4. \/ nodes[a] = NoNode /\ NodeMap' = [nodes EXCEPT ![a] = nodes[s]]
      \/ /\ nodes[a] # NoNode /\ NodeMap' = nodes
         /\ \/ nodes[a] = nodes[s] \/ checkNodeConnectivity(nodes[a], nodes[s])
            \/ mergeNode(nodes[a], nodes[s])
  BY <1>1 DEF MoveHandled, Move, CreateNodes
<1> HIDE DEF nodes, a, s, T
<1>5. CASE nodes[a] = NoNode /\ NodeMap' = [nodes EXCEPT ![a] = nodes[s]]
  BY <1>1, <1>2, <1>5 DEF a, s
<1>6. CASE nodes[a] # NoNode /\ NodeMap' = nodes /\ checkNodeConnectivity(nodes[a], nodes[s])
  <2>1. nodes[a] = nodes[s]
    BY <1>1, <1>2, <1>3, <1>6, ConnectedAlike
  <2> QED BY <1>6, <2>1 DEF a, s
<1>7. CASE NodeMap' = nodes /\ mergeNode(nodes[a], nodes[s])
  BY <1>1, <1>7 DEF mergeNode, a, s
<1> QED BY <1>4, <1>5, <1>6, <1>7 DEF a, s

LEMMA MoveHandlerStep ==
  ASSUME NEW lvl, Levelled(lvl), Inv, TypeOK', LevelInv(lvl), MoveInv, NEW i \in Calls, HandleInst(i)
  PROVE  MoveInv'
<1>1. /\ TypeOK /\ stack = <<>> /\ done' = done \cup {i} /\ UNCHANGED blockedMerges
      /\ AccessHandled(i) \/ MoveHandled(i) \/ OtherHandled(i)
  BY HandlerKinds DEF Inv
<1>2. NodesAfter(i, NodeMap, NodeMap')
  BY <1>1, HandledNodes
<1>3. ASSUME NEW k \in done, MoveCall(k)
      PROVE  /\ NodeMap'[Assigned(k)] # NoNode /\ NodeMap'[Source(k)] # NoNode
             /\ blockedMerges = 0 => NodeMap'[Assigned(k)] = NodeMap'[Source(k)]
  <2>1. Assigned(k) \in Value /\ Source(k) \in Value
    BY <1>1, <1>3, CallValues DEF TypeOK
  <2>2. /\ NodeMap[Assigned(k)] # NoNode /\ NodeMap[Source(k)] # NoNode
        /\ blockedMerges = 0 => NodeMap[Assigned(k)] = NodeMap[Source(k)]
    BY <1>1, <1>3 DEF MoveInv
  <2> QED BY <1>2, <2>1, <2>2 DEF NodesAfter
<1>4. ASSUME MoveCall(i)
      PROVE  /\ NodeMap'[Assigned(i)] # NoNode /\ NodeMap'[Source(i)] # NoNode
             /\ \/ NodeMap'[Assigned(i)] = NodeMap'[Source(i)]
                \/ /\ Len(stack') = 1 /\ stack'[1].at = "enter"
                   /\ stack'[1].n1 = NodeMap'[Assigned(i)] /\ stack'[1].n2 = NodeMap'[Source(i)]
  <2>1. NodeMap \in [Value -> Value \cup {NoNode}] /\ NodeMap' \in [Value -> Value \cup {NoNode}]
    BY <1>1 DEF TypeOK
  <2>2. NodeMap'[Assigned(i)] \in Value /\ NodeMap'[Source(i)] \in Value
    BY <1>2, <1>4, <2>1, HandledBorn
  <2>3. MoveHandled(i)
    BY <1>1, <1>4, CallValues DEF AccessHandled, OtherHandled
  <2>4. \/ NodeMap'[Assigned(i)] = NodeMap'[Source(i)]
        \/ stack' = <<Activation(NodeMap'[Assigned(i)], NodeMap'[Source(i)], "enter", NoNode, NoNode)>>
    BY <2>3, MoveUnites
  <2> QED BY <2>2, <2>4, ValueAssumption DEF Activation
<1> QED BY <1>1, <1>3, <1>4 DEF MoveInv

THEOREM MoveInvariant ==
  ASSUME NEW CONSTANT lvl, Levelled(lvl)
  PROVE  Spec => []MoveInv
<1>1. Init => MoveInv
  BY DEF Init, MoveInv
<1>2. Inv /\ Inv' /\ LevelInv(lvl) /\ MoveInv /\ [Next]_vars => MoveInv'
  <2> SUFFICES ASSUME Inv, Inv', LevelInv(lvl), MoveInv, [Next]_vars
               PROVE  MoveInv'
    OBVIOUS
  <2>1. CASE UNCHANGED vars
    <3>1. UNCHANGED <<NodeMap, stack, blockedMerges, done>>
      BY <2>1 DEF vars, graph
    <3> QED BY <3>1 DEF MoveInv
  <2>2. TypeOK'
    BY DEF Inv
  <2> QED BY <2>1, <2>2, MoveMergeStep, MoveHandlerStep DEF Next
<1> QED BY <1>1, <1>2, Invariance, LevelInvariant, PTL DEF Spec

\* In a program with pointer levels, unless TBAA blocked a merge, a copy is in the
\* class of its source between handlers: no copy is skipped because its nodes are
\* connected but distinct.
THEOREM MovesAlwaysUnited ==
  ASSUME NEW CONSTANT lvl, Levelled(lvl)
  PROVE  Spec => []MovesUnited
<1>1. MoveInv => MovesUnited
  <2> SUFFICES ASSUME MoveInv, stack = <<>>, blockedMerges = 0, NEW i \in done, MoveCall(i)
               PROVE  NodeMap[Assigned(i)] = NodeMap[Source(i)]
    BY DEF MovesUnited, Quiet, MoveCall, Assigned, Source
  <2> QED BY DEF MoveInv
<1> QED BY <1>1, MoveInvariant, PTL

-----------------------------------------------------------------------------
(* One context inside another: P gives the nodes of the other one, and E the pairs *)
(* of values that it has an edge between.                                          *)

\* E is about classes, and joins each with one at most in either direction.
Joins(E, P) ==
  /\ E \in SUBSET (Value \X Value)
  /\ \A e, d \in E : P[e[1]] = P[d[1]] <=> P[e[2]] = P[d[2]]
  /\ \A e \in E : \A n, m \in Value : P[n] = P[e[1]] /\ P[m] = P[e[2]] => <<n, m>> \in E

NodesWithin(P) == \A v \in Value : NodeMap[v] # NoNode => P[NodeMap[v]] = P[v]
EdgesWithin(E) ==
  \A n \in Value : /\ ToNodeMap[n] # NoNode => <<n, ToNodeMap[n]>> \in E
                   /\ FromNodeMap[n] # NoNode => <<FromNodeMap[n], n>> \in E
FrameWithin(fr, E, P) ==
  /\ P[fr.n1] = P[fr.n2]
  /\ fr.at = "toReturn" => <<fr.n2, fr.m2>> \in E
  /\ fr.at = "fromReturn" => <<fr.m2, fr.n2>> \in E
StackWithin(E, P) == \A j \in 1..Len(stack) : FrameWithin(stack[j], E, P)

Within(E, P) == NodesWithin(P) /\ EdgesWithin(E) /\ StackWithin(E, P)


\* A frame is replaced by one that is within, and the rest of the stack is kept.
LEMMA PopWithin ==
  ASSUME NEW E, NEW P, stack \in Seq(Frame), stack # <<>>, Pop, StackWithin(E, P)
  PROVE  StackWithin(E, P)'
<1>1. /\ Len(stack) \in Nat \ {0} /\ Len(stack') = Len(stack) - 1
      /\ \A j \in 1..Len(stack') : stack'[j] = stack[j]
  BY PopType, TopType
<1>2. \A j \in 1..Len(stack') : j \in 1..Len(stack)
  BY <1>1
<1>3. ASSUME NEW j \in 1..Len(stack') PROVE FrameWithin(stack'[j], E, P)
  <2>1. FrameWithin(stack[j], E, P) /\ stack'[j] = stack[j]
    BY <1>1, <1>2 DEF StackWithin
  <2> QED BY <2>1
<1> QED BY <1>3 DEF StackWithin

LEMMA GoOnWithin ==
  ASSUME NEW E, NEW P, stack \in Seq(Frame), stack # <<>>, NEW at \in {"to", "from"}, GoOn(at),
         StackWithin(E, P)
  PROVE  StackWithin(E, P)'
<1>1. /\ stack' \in Seq(Frame) /\ Len(stack') = Len(stack) /\ Len(stack) \in Nat \ {0}
      /\ \A j \in 1..Len(stack) : stack'[j].n1 = stack[j].n1 /\ stack'[j].n2 = stack[j].n2
  BY GoOnType, TopType DEF Phase
<1>2. /\ \A j \in 1..(Len(stack) - 1) : stack'[j] = stack[j]
      /\ stack'[Len(stack)].at = at
  BY <1>1, TopType DEF GoOn, Frame
<1>3. ASSUME NEW j \in 1..Len(stack') PROVE FrameWithin(stack'[j], E, P)
  <2>1. FrameWithin(stack[j], E, P)
    BY <1>1 DEF StackWithin
  <2>2. CASE j = Len(stack)
    BY <1>1, <1>2, <2>1, <2>2 DEF FrameWithin
  <2>3. CASE j # Len(stack)
    <3>1. j \in 1..(Len(stack) - 1)
      BY <1>1, <2>3
    <3>2. stack'[j] = stack[j]
      BY <1>2, <3>1
    <3> QED BY <2>1, <3>2
  <2> QED BY <2>2, <2>3
<1> QED BY <1>3 DEF StackWithin

LEMMA RecurseWithin ==
  ASSUME NEW E, NEW P, stack \in Seq(Frame), stack # <<>>, NEW at \in {"toReturn", "fromReturn"},
         NEW m1 \in Value, NEW m2 \in Value, Recurse(at, m1, m2), StackWithin(E, P),
         P[m1] = P[m2], <<top.n2, m2>> \in E \/ at # "toReturn", <<m2, top.n2>> \in E \/ at # "fromReturn"
  PROVE  StackWithin(E, P)'
<1>1. /\ Len(stack') = Len(stack) + 1 /\ Len(stack) \in Nat \ {0}
      /\ \A j \in 1..(Len(stack) - 1) : stack'[j] = stack[j]
      /\ stack'[Len(stack)] = Activation(top.n1, top.n2, at, m1, m2)
      /\ stack'[Len(stack) + 1] = Activation(m1, m2, "enter", NoNode, NoNode)
  BY RecurseType, TopType DEF Phase
<1>2. Len(stack) \in 1..Len(stack) /\ FrameWithin(top, E, P)
  BY <1>1 DEF StackWithin, top
<1>3. ASSUME NEW j \in 1..Len(stack') PROVE FrameWithin(stack'[j], E, P)
  <2>1. CASE j = Len(stack) + 1
    BY <1>1, <2>1 DEF FrameWithin, Activation
  <2>2. CASE j = Len(stack)
    BY <1>1, <1>2, <2>2 DEF FrameWithin, Activation
  <2>3. CASE j \in 1..(Len(stack) - 1)
    <3>1. j \in 1..Len(stack) /\ stack'[j] = stack[j]
      BY <1>1, <2>3
    <3>2. FrameWithin(stack[j], E, P)
      BY <3>1 DEF StackWithin
    <3> QED BY <3>1, <3>2
  <2> QED BY <1>1, <2>1, <2>2, <2>3
<1> QED BY <1>3 DEF StackWithin

\* A merge of nodes that are one in the other context stays inside it.
LEMMA MergeWithin ==
  ASSUME NEW E, NEW P, Joins(E, P), Inv, Within(E, P), Merge
  PROVE  Within(E, P)'
<1>1. /\ TypeOK /\ Partition /\ stack # <<>> /\ stack \in Seq(Frame)
      /\ ToNodeMap \in [Value -> Value \cup {NoNode}] /\ FromNodeMap \in [Value -> Value \cup {NoNode}]
  BY DEF Inv, TypeOK, Merge, MergeBlocked, MergeSelf, MergeValues, MergeTo, MergeToReturn, MergeFrom,
         MergeFromReturn, Running
<1>2. /\ top.n1 \in Value /\ top.n2 \in Value
      /\ P[top.n1] = P[top.n2]
      /\ top.at = "toReturn" => <<top.n2, top.m2>> \in E
      /\ top.at = "fromReturn" => <<top.m2, top.n2>> \in E
  <2>1. top \in Frame /\ Len(stack) \in 1..Len(stack)
    BY <1>1, TopType
  <2>2. FrameWithin(top, E, P)
    BY <2>1 DEF Within, StackWithin, top
  <2> QED BY <2>1, <2>2 DEF Frame, FrameWithin
<1>3. NodesWithin(P) /\ EdgesWithin(E) /\ StackWithin(E, P)
  BY DEF Within
<1>4. ASSUME UNCHANGED NodeMap PROVE NodesWithin(P)'
  BY <1>3, <1>4 DEF NodesWithin
<1>5. ASSUME UNCHANGED <<ToNodeMap, FromNodeMap>> PROVE EdgesWithin(E)'
  BY <1>3, <1>5 DEF EdgesWithin
<1>6. \A n, m, k, l \in Value : <<n, m>> \in E /\ P[k] = P[n] /\ P[l] = P[m] => <<k, l>> \in E
  BY DEF Joins
<1>7. \A n, m, k, l \in Value : <<n, m>> \in E /\ <<k, l>> \in E => (P[n] = P[k] <=> P[m] = P[l])
  BY DEF Joins
<1>8. CASE MergeBlocked \/ MergeSelf
  <2>1. UNCHANGED <<NodeMap, ToNodeMap, FromNodeMap>> /\ Pop
    BY <1>8 DEF MergeBlocked, MergeSelf, graph
  <2> QED BY <1>1, <1>3, <1>4, <1>5, <2>1, PopWithin DEF Within
<1>9. CASE MergeValues
  <2>1. UNCHANGED <<ToNodeMap, FromNodeMap>> /\ GoOn("to")
    BY <1>9 DEF MergeValues
  <2>2. \A v \in Value : NodeMap'[v] = IF NodeMap[v] = top.n1 THEN top.n2 ELSE NodeMap[v]
    BY <1>1, <1>2, <1>9 DEF MergeValues, Partition
  <2>3. NodesWithin(P)'
    BY <1>2, <1>3, <2>2, ValueAssumption DEF NodesWithin
  <2> QED BY <1>1, <1>3, <1>5, <2>1, <2>3, GoOnWithin DEF Within
<1>10. CASE MergeTo
  <2> DEFINE n1 == top.n1
             n2 == top.n2
             m1 == ToNodeMap[n1]
             m2 == ToNodeMap[n2]
  <2>1. UNCHANGED NodeMap
    BY <1>10 DEF MergeTo
  <2>2. /\ m1 # NoNode => m1 \in Value /\ <<n1, m1>> \in E
        /\ m2 # NoNode => m2 \in Value /\ <<n2, m2>> \in E
    BY <1>1, <1>2, <1>3 DEF EdgesWithin
  <2>3. CASE UNCHANGED <<ToNodeMap, FromNodeMap>> /\ GoOn("from")
    BY <1>1, <1>3, <1>4, <1>5, <2>1, <2>3, GoOnWithin DEF Within
  <2>4. CASE /\ m1 # NoNode /\ GoOn("from")
             /\ ToNodeMap' = MovedEdge(ToNodeMap, n1, n2)
             /\ FromNodeMap' = [FromNodeMap EXCEPT ![m1] = n2]
    <3>1. <<n2, m1>> \in E
      BY <1>2, <1>6, <2>2, <2>4
    <3>2. \A k \in Value : /\ ToNodeMap'[k] \in {ToNodeMap[k], NoNode} \/ (k = n2 /\ ToNodeMap'[k] = m1)
                           /\ FromNodeMap'[k] = FromNodeMap[k] \/ (k = m1 /\ FromNodeMap'[k] = n2)
      BY <1>1, <1>2, <2>4 DEF MovedEdge
    <3> HIDE DEF m1
    <3>3. EdgesWithin(E)'
      BY <1>3, <3>1, <3>2 DEF EdgesWithin
    <3> QED BY <1>1, <1>3, <1>4, <2>1, <2>4, <3>3, GoOnWithin DEF Within
  <2>5. CASE /\ m1 # NoNode /\ m2 # NoNode
             /\ ToNodeMap' = Erased(ToNodeMap, n1, n2)
             /\ FromNodeMap' = Erased(FromNodeMap, m1, m2)
             /\ Recurse("toReturn", m1, m2)
    <3>1. m1 \in Value /\ m2 \in Value /\ <<n2, m2>> \in E /\ P[m1] = P[m2]
      BY <1>2, <1>7, <2>2, <2>5
    <3>2. \A k \in Value : /\ ToNodeMap'[k] \in {ToNodeMap[k], NoNode}
                           /\ FromNodeMap'[k] \in {FromNodeMap[k], NoNode}
      BY <1>1, <2>5 DEF Erased
    <3>3. EdgesWithin(E)'
      BY <1>3, <3>2 DEF EdgesWithin
    <3> HIDE DEF m1, m2
    <3>4. StackWithin(E, P)'
      BY <1>1, <1>3, <2>5, <3>1, RecurseWithin
    <3> QED BY <1>4, <2>1, <3>3, <3>4 DEF Within
  <2> QED BY <1>10, <2>3, <2>4, <2>5 DEF MergeTo
<1>11. CASE MergeToReturn
  <2>1. UNCHANGED NodeMap /\ GoOn("from") /\ <<top.n2, top.m2>> \in E
    BY <1>2, <1>11 DEF MergeToReturn, Running
  <2>2. \A k \in Value : /\ ToNodeMap'[k] = ToNodeMap[k] \/ (k = top.n2 /\ ToNodeMap'[k] = top.m2)
                         /\ FromNodeMap'[k] = FromNodeMap[k] \/ (k = top.m2 /\ FromNodeMap'[k] = top.n2)
    BY <1>1, <1>2, <1>11 DEF MergeToReturn, AddEdge
  <2>3. EdgesWithin(E)'
    BY <1>3, <2>1, <2>2 DEF EdgesWithin
  <2> QED BY <1>1, <1>3, <1>4, <2>1, <2>3, GoOnWithin DEF Within
<1>12. CASE MergeFrom
  <2> DEFINE n1 == top.n1
             n2 == top.n2
             m1 == FromNodeMap[n1]
             m2 == FromNodeMap[n2]
  <2>1. UNCHANGED NodeMap
    BY <1>12 DEF MergeFrom
  <2>2. /\ m1 # NoNode => m1 \in Value /\ <<m1, n1>> \in E
        /\ m2 # NoNode => m2 \in Value /\ <<m2, n2>> \in E
    BY <1>1, <1>2, <1>3 DEF EdgesWithin
  <2>3. CASE UNCHANGED <<ToNodeMap, FromNodeMap>> /\ Pop
    BY <1>1, <1>3, <1>4, <1>5, <2>1, <2>3, PopWithin DEF Within
  <2>4. CASE /\ m1 # NoNode /\ Pop
             /\ FromNodeMap' = MovedEdge(FromNodeMap, n1, n2)
             /\ ToNodeMap' = [ToNodeMap EXCEPT ![m1] = n2]
    <3>1. <<m1, n2>> \in E
      BY <1>2, <1>6, <2>2, <2>4
    <3>2. \A k \in Value : /\ FromNodeMap'[k] \in {FromNodeMap[k], NoNode} \/ (k = n2 /\ FromNodeMap'[k] = m1)
                           /\ ToNodeMap'[k] = ToNodeMap[k] \/ (k = m1 /\ ToNodeMap'[k] = n2)
      BY <1>1, <1>2, <2>4 DEF MovedEdge
    <3> HIDE DEF m1
    <3>3. EdgesWithin(E)'
      BY <1>3, <3>1, <3>2 DEF EdgesWithin
    <3> QED BY <1>1, <1>3, <1>4, <2>1, <2>4, <3>3, PopWithin DEF Within
  <2>5. CASE /\ m1 # NoNode /\ m2 # NoNode
             /\ FromNodeMap' = Erased(FromNodeMap, n1, n2)
             /\ ToNodeMap' = Erased(ToNodeMap, m1, m2)
             /\ Recurse("fromReturn", m1, m2)
    <3>1. m1 \in Value /\ m2 \in Value /\ <<m2, n2>> \in E /\ P[m1] = P[m2]
      BY <1>2, <1>7, <2>2, <2>5
    <3>2. \A k \in Value : /\ ToNodeMap'[k] \in {ToNodeMap[k], NoNode}
                           /\ FromNodeMap'[k] \in {FromNodeMap[k], NoNode}
      BY <1>1, <2>5 DEF Erased
    <3>3. EdgesWithin(E)'
      BY <1>3, <3>2 DEF EdgesWithin
    <3> HIDE DEF m1, m2
    <3>4. StackWithin(E, P)'
      BY <1>1, <1>3, <2>5, <3>1, RecurseWithin
    <3> QED BY <1>4, <2>1, <3>3, <3>4 DEF Within
  <2> QED BY <1>12, <2>3, <2>4, <2>5 DEF MergeFrom
<1>13. CASE MergeFromReturn
  <2>1. UNCHANGED NodeMap /\ Pop /\ <<top.m2, top.n2>> \in E
    BY <1>2, <1>13 DEF MergeFromReturn, Running
  <2>2. \A k \in Value : /\ ToNodeMap'[k] = ToNodeMap[k] \/ (k = top.m2 /\ ToNodeMap'[k] = top.n2)
                         /\ FromNodeMap'[k] = FromNodeMap[k] \/ (k = top.n2 /\ FromNodeMap'[k] = top.m2)
    BY <1>1, <1>2, <1>13 DEF MergeFromReturn, AddEdge
  <2>3. EdgesWithin(E)'
    BY <1>3, <2>1, <2>2 DEF EdgesWithin
  <2> QED BY <1>1, <1>3, <1>4, <2>1, <2>3, PopWithin DEF Within
<1> QED BY <1>8, <1>9, <1>10, <1>11, <1>12, <1>13 DEF Merge

-----------------------------------------------------------------------------
(* What the calls handled make of the values, in a context that has finished its *)
(* merges: the edges, and the values that are copies of one.                     *)

EdgesMade(calls, P) ==
  {e \in Value \X Value : \E i \in calls : Accesses(i) /\ P[e[1]] = P[i.v2] /\ P[e[2]] = P[i.v1]}

Alike(c, d, calls, P) ==
  \/ \E i \in calls : MoveCall(i) /\ P[c] = P[Assigned(i)] /\ P[d] = P[Source(i)]
  \/ \E i, j \in calls : Accesses(i) /\ Accesses(j) /\
       \/ P[c] = P[i.v1] /\ P[d] = P[j.v1] /\ P[i.v2] = P[j.v2]
       \/ P[c] = P[i.v2] /\ P[d] = P[j.v2] /\ P[i.v1] = P[j.v1]

\* A handler asked for one merge, of nodes that are alike.
Due(st, calls, P) ==
  \/ st = <<>>
  \/ \E c, d \in Value : st = <<Activation(c, d, "enter", NoNode, NoNode)>> /\ Alike(c, d, calls, P)

LEMMA QuietJoins ==
  ASSUME NEW lvl, Inv, LevelInv(lvl), AccessInv, MoveInv, stack = <<>>, blockedMerges = 0
  PROVE  /\ Joins(EdgesMade(done, NodeMap), NodeMap)
         /\ \A c, d \in Value : Alike(c, d, done, NodeMap) => NodeMap[c] = NodeMap[d]
<1>1. TypeOK /\ Agree(ToNodeMap, FromNodeMap) /\ Len(stack) = 0
  BY DEF Inv, LevelInv
<1>2. ASSUME NEW i \in done, Accesses(i)
      PROVE  /\ i.v1 \in Value /\ i.v2 \in Value
             /\ NodeMap[i.v1] \in Value /\ NodeMap[i.v2] \in Value
             /\ ToNodeMap[NodeMap[i.v2]] = NodeMap[i.v1]
  <2>1. i \in Calls /\ Access(i)
    BY <1>1, <1>2 DEF TypeOK, Access
  <2> QED BY <1>1, <1>2, <2>1, CallValues DEF AccessInv, Known, AllHeld, Held
<1>3. \A i, j \in done : Accesses(i) /\ Accesses(j) =>
        (NodeMap[i.v2] = NodeMap[j.v2] <=> NodeMap[i.v1] = NodeMap[j.v1])
  BY <1>1, <1>2 DEF Agree
<1>4. \A i \in done : MoveCall(i) => NodeMap[Assigned(i)] = NodeMap[Source(i)]
  BY <1>1 DEF MoveInv
<1>5. \A e \in EdgesMade(done, NodeMap) : \E i \in done :
        Accesses(i) /\ NodeMap[e[1]] = NodeMap[i.v2] /\ NodeMap[e[2]] = NodeMap[i.v1]
  BY DEF EdgesMade
<1>6. Joins(EdgesMade(done, NodeMap), NodeMap)
  <2>1. EdgesMade(done, NodeMap) \in SUBSET (Value \X Value)
    BY DEF EdgesMade
  <2>2. \A e, d \in EdgesMade(done, NodeMap) : NodeMap[e[1]] = NodeMap[d[1]] <=> NodeMap[e[2]] = NodeMap[d[2]]
    BY <1>3, <1>5
  <2>3. \A e \in EdgesMade(done, NodeMap) : \A n, m \in Value :
          NodeMap[n] = NodeMap[e[1]] /\ NodeMap[m] = NodeMap[e[2]] => <<n, m>> \in EdgesMade(done, NodeMap)
    BY <1>5 DEF EdgesMade
  <2> QED BY <2>1, <2>2, <2>3 DEF Joins
<1>7. \A c, d \in Value : Alike(c, d, done, NodeMap) => NodeMap[c] = NodeMap[d]
  BY <1>3, <1>4 DEF Alike
<1> QED BY <1>6, <1>7

\* When the other context has finished its merges, what is due is within it.
LEMMA DueWithin ==
  ASSUME NEW E, NEW calls, NEW P, \A c, d \in Value : Alike(c, d, calls, P) => P[c] = P[d],
         Due(stack, calls, P)
  PROVE  StackWithin(E, P)
<1>1. CASE stack = <<>>
  BY <1>1 DEF StackWithin
<1>2. ASSUME NEW c \in Value, NEW d \in Value, Alike(c, d, calls, P),
             stack = <<Activation(c, d, "enter", NoNode, NoNode)>>
      PROVE  StackWithin(E, P)
  <2>1. Len(stack) = 1 /\ stack[1].n1 = c /\ stack[1].n2 = d /\ stack[1].at = "enter"
    BY <1>2 DEF Activation
  <2> QED BY <1>2, <2>1 DEF StackWithin, FrameWithin
<1> QED BY <1>1, <1>2 DEF Due

\* A merge of the other context unites more.
LEMMA OtherMerges ==
  ASSUME NEW calls \in SUBSET Calls, NEW P, NEW Q, NEW st,
         \A v, w \in Value : P[v] = P[w] => Q[v] = Q[w]
  PROVE  /\ EdgesMade(calls, P) \subseteq EdgesMade(calls, Q)
         /\ Due(st, calls, P) => Due(st, calls, Q)
<1>1. \A i \in calls : /\ Accesses(i) => i.v1 \in Value /\ i.v2 \in Value
                       /\ MoveCall(i) => Assigned(i) \in Value /\ Source(i) \in Value
  BY CallValues
<1>2. \A c, d \in Value : Alike(c, d, calls, P) => Alike(c, d, calls, Q)
  BY <1>1 DEF Alike
<1>3. EdgesMade(calls, P) \subseteq EdgesMade(calls, Q)
  BY <1>1 DEF EdgesMade
<1> QED BY <1>2, <1>3 DEF Due

LEMMA HandledEdges ==
  ASSUME TypeOK, NEW i \in Calls, HandleInst(i)
  PROVE  /\ \A n \in Value :
              /\ ToNodeMap'[n] = ToNodeMap[n]
                 \/ (Accesses(i) /\ n = NodeMap'[i.v2] /\ ToNodeMap'[n] = NodeMap'[i.v1])
              /\ FromNodeMap'[n] = FromNodeMap[n]
                 \/ (Accesses(i) /\ n = NodeMap'[i.v1] /\ FromNodeMap'[n] = NodeMap'[i.v2])
         /\ \/ stack' = <<>>
            \/ \E c, d : /\ stack' = <<Activation(c, d, "enter", NoNode, NoNode)>>
                         /\ \/ MoveCall(i) /\ c = NodeMap'[Assigned(i)] /\ d = NodeMap'[Source(i)]
                            \/ Accesses(i) /\ c = NodeMap'[i.v1] /\ d = ToNodeMap[NodeMap'[i.v2]] /\ d # NoNode
                            \/ Accesses(i) /\ d = NodeMap'[i.v2] /\ c = FromNodeMap[NodeMap'[i.v1]] /\ c # NoNode
<1>1. stack = <<>> /\ (AccessHandled(i) \/ MoveHandled(i) \/ OtherHandled(i))
  BY HandlerKinds
<1>2. CASE OtherHandled(i)
  BY <1>1, <1>2 DEF OtherHandled
<1>3. CASE AccessHandled(i)
  <2> DEFINE n1 == NodeMap'[i.v1]
             n2 == NodeMap'[i.v2]
  <2>1. Accesses(i) /\ NodeMap' = NodeMapWith(Creates(i))
    BY <1>3 DEF AccessHandled, CreateNodes
  <2>2. UNCHANGED <<ToNodeMap, FromNodeMap, stack>> \/ PointTo(NodeMapWith(Creates(i))[i.v1], NodeMapWith(Creates(i))[i.v2])
    BY <1>3 DEF AccessHandled
  <2>3. \/ UNCHANGED <<ToNodeMap, FromNodeMap, stack>>
        \/ /\ UNCHANGED <<ToNodeMap, FromNodeMap>>
           /\ ToNodeMap[n2] # NoNode
           /\ stack' = <<Activation(n1, ToNodeMap[n2], "enter", NoNode, NoNode)>>
        \/ /\ UNCHANGED <<ToNodeMap, FromNodeMap>>
           /\ FromNodeMap[n1] # NoNode
           /\ stack' = <<Activation(FromNodeMap[n1], n2, "enter", NoNode, NoNode)>>
        \/ /\ ToNodeMap' = [ToNodeMap EXCEPT ![n2] = n1]
           /\ FromNodeMap' = [FromNodeMap EXCEPT ![n1] = n2]
           /\ UNCHANGED stack
    BY <1>1, <2>1, <2>2 DEF PointTo, mergeNode, AddEdge
  <2> HIDE DEF n1, n2
  <2>4. \A n \in Value :
          /\ ToNodeMap'[n] = ToNodeMap[n] \/ (n = n2 /\ ToNodeMap'[n] = n1)
          /\ FromNodeMap'[n] = FromNodeMap[n] \/ (n = n1 /\ FromNodeMap'[n] = n2)
    BY <2>3 DEF TypeOK
  <2>5. \/ stack' = <<>>
        \/ \E c, d : /\ stack' = <<Activation(c, d, "enter", NoNode, NoNode)>>
                     /\ \/ c = n1 /\ d = ToNodeMap[n2] /\ d # NoNode
                        \/ d = n2 /\ c = FromNodeMap[n1] /\ c # NoNode
    BY <1>1, <2>3
  <2> QED BY <2>1, <2>4, <2>5 DEF n1, n2
<1>4. CASE MoveHandled(i)
  <2> DEFINE nodes == NodeMapWith(Creates(i))
  <2>1. MoveCall(i) /\ Creates(i) = Passed(i) \cup {Source(i)}
    BY <1>4, CallValues DEF MoveHandled
  <2>2. /\ UNCHANGED <<ToNodeMap, FromNodeMap>>
        /\ UNCHANGED stack \/ (NodeMap' = nodes /\ mergeNode(nodes[Assigned(i)], nodes[Source(i)]))
    BY <1>4, <2>1 DEF MoveHandled, Move, CreateNodes
  <2> HIDE DEF nodes
  <2>3. \/ stack' = <<>>
        \/ stack' = <<Activation(NodeMap'[Assigned(i)], NodeMap'[Source(i)], "enter", NoNode, NoNode)>>
    BY <1>1, <2>2 DEF mergeNode
  <2> QED BY <2>1, <2>2, <2>3
<1> QED BY <1>1, <1>2, <1>3, <1>4

\* A call handled by both contexts: P are the nodes of the other one, Q those after it.
LEMMA HandledWithin ==
  ASSUME Inv, TypeOK', NEW i \in Calls, HandleInst(i),
         NEW P \in [Value -> Value \cup {NoNode}], NEW Q \in [Value -> Value \cup {NoNode}],
         NodesAfter(i, P, Q),
         \A v \in Value : NodeMap[v] # NoNode <=> P[v] # NoNode,
         \A j \in done : /\ Accesses(j) => P[j.v1] # NoNode /\ P[j.v2] # NoNode
                         /\ MoveCall(j) => P[Assigned(j)] # NoNode /\ P[Source(j)] # NoNode,
         NodesWithin(P), EdgesWithin(EdgesMade(done, P))
  PROVE  /\ \A v \in Value : NodeMap'[v] # NoNode <=> Q[v] # NoNode
         /\ \A v \in Value : NodeMap'[v] # NoNode => Q[NodeMap'[v]] = Q[v]
         /\ \A n \in Value : /\ ToNodeMap'[n] # NoNode => <<n, ToNodeMap'[n]>> \in EdgesMade(done', Q)
                             /\ FromNodeMap'[n] # NoNode => <<FromNodeMap'[n], n>> \in EdgesMade(done', Q)
         /\ Due(stack', done', Q)
<1> USE ValueAssumption
<1>1. /\ TypeOK /\ done' = done \cup {i} /\ done \subseteq Calls
      /\ NodeMap \in [Value -> Value \cup {NoNode}] /\ NodeMap' \in [Value -> Value \cup {NoNode}]
      /\ ToNodeMap \in [Value -> Value \cup {NoNode}] /\ FromNodeMap \in [Value -> Value \cup {NoNode}]
  BY HandlerKinds DEF Inv, TypeOK
<1>2. NodesAfter(i, NodeMap, NodeMap')
  BY <1>1, HandledNodes
<1>3. /\ \A v \in Creates(i) : v \in Value /\ NodeMap'[v] \in Value /\ Q[v] \in Value
      /\ MoveCall(i) => /\ Assigned(i) \in Value /\ Source(i) \in Value /\ Source(i) \in Creates(i)
                        /\ NodeMap'[Assigned(i)] \in Value /\ NodeMap'[Source(i)] \in Value
                        /\ Q[Assigned(i)] \in Value /\ Q[Source(i)] \in Value
      /\ Accesses(i) => /\ i.v1 \in Value /\ i.v2 \in Value
                        /\ NodeMap'[i.v1] \in Value /\ NodeMap'[i.v2] \in Value
                        /\ Q[i.v1] \in Value /\ Q[i.v2] \in Value
  BY <1>1, <1>2, HandledBorn, CallValues
<1>4. \A v, w \in Value : P[v] # NoNode /\ P[v] = P[w] => Q[v] = Q[w]
  BY DEF NodesAfter
<1>5. \A v \in Value : NodeMap'[v] # NoNode <=> Q[v] # NoNode
  BY <1>2, <1>3 DEF NodesAfter
<1>6. ASSUME NEW v \in Value, NodeMap'[v] # NoNode, MoveCall(i) => v # Assigned(i) \/ v \in Creates(i) \/ NodeMap[v] # NoNode
      PROVE  Q[NodeMap'[v]] = Q[v]
  <2>1. CASE NodeMap[v] # NoNode
    <3>1. NodeMap'[v] = NodeMap[v] /\ NodeMap[v] \in Value /\ P[v] # NoNode /\ P[NodeMap[v]] = P[v]
      BY <1>1, <1>2, <2>1 DEF NodesAfter, NodesWithin
    <3> QED BY <1>4, <3>1
  <2>2. CASE NodeMap[v] = NoNode
    <3>1. NodeMap'[v] = v
      BY <1>2, <1>6, <2>2 DEF NodesAfter
    <3> QED BY <3>1
  <2> QED BY <2>1, <2>2
<1>7. \A v \in Value : NodeMap'[v] # NoNode => Q[NodeMap'[v]] = Q[v]
  <2> SUFFICES ASSUME NEW v \in Value, NodeMap'[v] # NoNode, MoveCall(i), v = Assigned(i),
                      v \notin Creates(i), NodeMap[v] = NoNode
               PROVE  Q[NodeMap'[v]] = Q[v]
    BY <1>6
  <2>1. NodeMap'[v] = NodeMap'[Source(i)] /\ Q[v] = Q[Source(i)]
    BY <1>2 DEF NodesAfter
  <2>2. Q[NodeMap'[Source(i)]] = Q[Source(i)]
    BY <1>3, <1>6
  <2> QED BY <2>1, <2>2
<1>8. \A e \in EdgesMade(done, P) : e \in EdgesMade(done', Q)
  <2> SUFFICES ASSUME NEW e \in EdgesMade(done, P)
               PROVE  e \in EdgesMade(done', Q)
    OBVIOUS
  <2>1. PICK j \in done : Accesses(j) /\ P[e[1]] = P[j.v2] /\ P[e[2]] = P[j.v1]
    BY DEF EdgesMade
  <2>2. /\ e \in Value \X Value /\ j.v1 \in Value /\ j.v2 \in Value
        /\ P[j.v1] # NoNode /\ P[j.v2] # NoNode
    BY <1>1, <2>1, CallValues DEF EdgesMade
  <2>3. Q[e[1]] = Q[j.v2] /\ Q[e[2]] = Q[j.v1]
    BY <1>4, <2>1, <2>2
  <2> QED BY <1>1, <2>1, <2>2, <2>3 DEF EdgesMade
<1>9. Accesses(i) => <<NodeMap'[i.v2], NodeMap'[i.v1]>> \in EdgesMade(done', Q)
  BY <1>1, <1>3, <1>7 DEF EdgesMade
<1>10. \A n \in Value : /\ ToNodeMap'[n] # NoNode => <<n, ToNodeMap'[n]>> \in EdgesMade(done', Q)
                        /\ FromNodeMap'[n] # NoNode => <<FromNodeMap'[n], n>> \in EdgesMade(done', Q)
  <2>1. \A n \in Value :
          /\ ToNodeMap'[n] = ToNodeMap[n]
             \/ (Accesses(i) /\ n = NodeMap'[i.v2] /\ ToNodeMap'[n] = NodeMap'[i.v1])
          /\ FromNodeMap'[n] = FromNodeMap[n]
             \/ (Accesses(i) /\ n = NodeMap'[i.v1] /\ FromNodeMap'[n] = NodeMap'[i.v2])
    BY <1>1, HandledEdges
  <2> QED BY <1>8, <1>9, <2>1 DEF EdgesWithin
<1>11. ASSUME NEW c, NEW d, stack' = <<Activation(c, d, "enter", NoNode, NoNode)>>,
              \/ MoveCall(i) /\ c = NodeMap'[Assigned(i)] /\ d = NodeMap'[Source(i)]
              \/ Accesses(i) /\ c = NodeMap'[i.v1] /\ d = ToNodeMap[NodeMap'[i.v2]] /\ d # NoNode
              \/ Accesses(i) /\ d = NodeMap'[i.v2] /\ c = FromNodeMap[NodeMap'[i.v1]] /\ c # NoNode
       PROVE  Due(stack', done', Q)
  <2>1. c \in Value /\ d \in Value
    BY <1>1, <1>3, <1>11
  <2>2. CASE MoveCall(i) /\ c = NodeMap'[Assigned(i)] /\ d = NodeMap'[Source(i)]
    <3>1. Q[c] = Q[Assigned(i)] /\ Q[d] = Q[Source(i)]
      BY <1>3, <1>7, <2>2
    <3>2. Alike(c, d, done', Q)
      BY <1>1, <2>2, <3>1 DEF Alike
    <3> QED BY <1>11, <2>1, <3>2 DEF Due
  <2>3. CASE Accesses(i) /\ c = NodeMap'[i.v1] /\ d = ToNodeMap[NodeMap'[i.v2]] /\ d # NoNode
    <3>1. <<NodeMap'[i.v2], d>> \in EdgesMade(done', Q)
      BY <1>3, <1>8, <2>3 DEF EdgesWithin
    <3>2. PICK j \in done' : Accesses(j) /\ Q[NodeMap'[i.v2]] = Q[j.v2] /\ Q[d] = Q[j.v1]
      BY <3>1 DEF EdgesMade
    <3>3. i \in done' /\ Q[c] = Q[i.v1] /\ Q[d] = Q[j.v1] /\ Q[i.v2] = Q[j.v2]
      BY <1>1, <1>3, <1>7, <2>3, <3>2
    <3>4. Alike(c, d, done', Q)
      BY <2>3, <3>2, <3>3 DEF Alike
    <3> QED BY <1>11, <2>1, <3>4 DEF Due
  <2>4. CASE Accesses(i) /\ d = NodeMap'[i.v2] /\ c = FromNodeMap[NodeMap'[i.v1]] /\ c # NoNode
    <3>1. <<c, NodeMap'[i.v1]>> \in EdgesMade(done', Q)
      BY <1>3, <1>8, <2>4 DEF EdgesWithin
    <3>2. PICK j \in done' : Accesses(j) /\ Q[c] = Q[j.v2] /\ Q[NodeMap'[i.v1]] = Q[j.v1]
      BY <3>1 DEF EdgesMade
    <3>3. i \in done' /\ Q[d] = Q[i.v2] /\ Q[c] = Q[j.v2] /\ Q[i.v1] = Q[j.v1]
      BY <1>1, <1>3, <1>7, <2>4, <3>2
    <3>4. Alike(c, d, done', Q)
      BY <2>4, <3>2, <3>3 DEF Alike
    <3> QED BY <1>11, <2>1, <3>4 DEF Due
  <2> QED BY <1>11, <2>2, <2>3, <2>4
<1>12. Due(stack', done', Q)
  <2>1. \/ stack' = <<>>
        \/ \E c, d : /\ stack' = <<Activation(c, d, "enter", NoNode, NoNode)>>
                     /\ \/ MoveCall(i) /\ c = NodeMap'[Assigned(i)] /\ d = NodeMap'[Source(i)]
                        \/ Accesses(i) /\ c = NodeMap'[i.v1] /\ d = ToNodeMap[NodeMap'[i.v2]] /\ d # NoNode
                        \/ Accesses(i) /\ d = NodeMap'[i.v2] /\ c = FromNodeMap[NodeMap'[i.v1]] /\ c # NoNode
    BY <1>1, HandledEdges
  <2>2. CASE stack' = <<>>
    BY <2>2 DEF Due
  <2> QED BY <1>11, <2>1, <2>2
<1> QED BY <1>5, <1>7, <1>10, <1>12
=============================================================================
