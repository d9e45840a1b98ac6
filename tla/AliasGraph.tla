----------------------------- MODULE AliasGraph -----------------------------
(***************************************************************************)
(* One AliasContext of TFA's field-insensitive alias analysis: the classes *)
(* of aliased LLVM values, the single points-to edge each class may have,  *)
(* the TBAA tag each class may carry, and the instruction handlers and     *)
(* mergeNode that change them.                                             *)
(*                                                                         *)
(* mergeNode calls itself in the middle of an update of the edge maps, so  *)
(* it is modelled in small steps with an explicit stack of its frames; a   *)
(* handler runs only when the stack is empty, because one context belongs  *)
(* to one thread.                                                          *)
(*                                                                         *)
(* A value gets at most one AliasNode allocated for it, so the node is     *)
(* named after the value: "node v" is the one created by inserting v.      *)
(***************************************************************************)
EXTENDS Naturals, Sequences, FiniteSets

CONSTANTS
  Value,        \* LLVM values: locals, arguments, globals, functions, constants
  Function,     \* the values that are llvm::Function
  ConstantData, \* the values that are llvm::ConstantData, which stores skip
  Tag,          \* distinct !tbaa access tags
  MayAlias,     \* the pairs of tags mayAliasByTBAA answers true for
  NoNode, NoTag,
  Calls         \* the handler calls an analysis may make

ASSUME ValueAssumption ==
  /\ Function \subseteq Value
  /\ ConstantData \subseteq Value
  /\ NoNode \notin Value
ASSUME TagAssumption == NoTag \notin Tag /\ MayAlias \subseteq Tag \X Tag

\* One call of a handler: the instruction kind decides which fields it has.
Call ==
       [op : {"alloca"}, v1 : Value]
  \cup [op : {"load", "store"}, v1 : Value, v2 : Value, tag : Tag \cup {NoTag}]
  \cup [op : {"init", "move", "ret"}, v1 : Value, v2 : Value]
  \cup [op : {"call"}, cai : Value, args : SUBSET Value]
  \cup [op : {"copycall"}, cai : Value, args : SUBSET Value, v1 : Value, v2 : Value]
  \cup [op : {"symbol_get"}, cai : Value, args : SUBSET Value, f : Function]

ASSUME CallsAssumption == Calls \subseteq Call

\* The SSA value an instruction defines; a move may name any two values.
Defines(i) == IF i.op \in {"alloca", "load", "ret"} THEN {i.v1}
              ELSE IF i.op \in {"call", "copycall", "symbol_get"} THEN {i.cai} ELSE {}

\* SSA form: no value has two defining instructions.
SSA(S) == \A i, j \in S : i # j => Defines(i) \cap Defines(j) = {}

VARIABLES
  NodeMap,         \* value -> the node it is in, NoNode before it has one
  aliasclass,      \* node -> its values; {} for a node merged away or unborn
  TBAATag,         \* node -> its tag
  ToNodeMap,       \* node -> the node it points to
  FromNodeMap,     \* node -> the node that points to it
  symbolGet,       \* functions found through __symbol_get
  blockedMerges,   \* g_NumTBAABlockedMerges
  stack,           \* activation frames of mergeNode, the running one last
  done             \* handler calls made: an instruction is handled once

graph == <<NodeMap, aliasclass, TBAATag, ToNodeMap, FromNodeMap>>
vars == <<graph, symbolGet, blockedMerges, stack, done>>

Phase == {"enter", "to", "toReturn", "from", "fromReturn"}
Frame == [n1 : Value, n2 : Value, at : Phase,
          m1 : Value \cup {NoNode}, m2 : Value \cup {NoNode}]

TypeOK ==
  /\ NodeMap \in [Value -> Value \cup {NoNode}]
  /\ aliasclass \in [Value -> SUBSET Value]
  /\ TBAATag \in [Value -> Tag \cup {NoTag}]
  /\ ToNodeMap \in [Value -> Value \cup {NoNode}]
  /\ FromNodeMap \in [Value -> Value \cup {NoNode}]
  /\ symbolGet \subseteq Function
  /\ blockedMerges \in Nat
  /\ stack \in Seq(Frame)
  /\ done \subseteq Calls

Init ==
  /\ NodeMap = [v \in Value |-> NoNode]
  /\ aliasclass = [n \in Value |-> {}]
  /\ TBAATag = [n \in Value |-> NoTag]
  /\ ToNodeMap = [n \in Value |-> NoNode]
  /\ FromNodeMap = [n \in Value |-> NoNode]
  /\ symbolGet = {}
  /\ blockedMerges = 0
  /\ stack = <<>>
  /\ done = {}

-----------------------------------------------------------------------------
(* Queries. *)

mayAliasByTBAA(a, b) == a = NoTag \/ b = NoTag \/ a = b \/ <<a, b>> \in MayAlias

shouldMergeByTBAA(n1, n2) == mayAliasByTBAA(TBAATag[n1], TBAATag[n2])

\* Breadth-first search along both edge maps: n2 is in every set that holds
\* n1 and follows the edges.
checkNodeConnectivity(n1, n2) ==
  \A S \in SUBSET Value :
    (/\ n1 \in S
     /\ \A n \in S : {ToNodeMap[n], FromNodeMap[n]} \subseteq S \cup {NoNode})
    => n2 \in S

\* Not what the code does: a value gets a new node although it has one.
NodesReplaced(S) == [v \in Value |-> IF v \in S THEN v ELSE NodeMap[v]]

(* getNode(v) == NULL, then new AliasNode, insert and NodeMap[v] = node, for
   every v of S that has no node. *)
NodeMapWith(S) == [v \in Value |-> IF v \in S /\ NodeMap[v] = NoNode THEN v ELSE NodeMap[v]]

AllocatedTwice(S) == [n \in Value |-> IF n \in S THEN {n} ELSE aliasclass[n]]
ClassesWith(S) == [n \in Value |-> IF n \in S /\ NodeMap[n] = NoNode THEN {n} ELSE aliasclass[n]]

CreateNodes(S) == NodeMap' = NodeMapWith(S) /\ aliasclass' = ClassesWith(S)

Activation(n1, n2, at, m1, m2) == [n1 |-> n1, n2 |-> n2, at |-> at, m1 |-> m1, m2 |-> m2]

mergeNode(n1, n2) == stack' = Append(stack, Activation(n1, n2, "enter", NoNode, NoNode))

OneWayEdge(from, to) ==
  /\ ToNodeMap' = [ToNodeMap EXCEPT ![from] = to]
  /\ UNCHANGED FromNodeMap
AddEdge(from, to) ==
  /\ ToNodeMap' = [ToNodeMap EXCEPT ![from] = to]
  /\ FromNodeMap' = [FromNodeMap EXCEPT ![to] = from]

-----------------------------------------------------------------------------
(* Handlers. *)

Handle(i) ==
  /\ stack = <<>>
  /\ i \notin done
  /\ SSA(done \cup {i})
  /\ done' = done \cup {i}

HandleAlloc(i) ==
  /\ i.op = "alloca"
  /\ Handle(i)
  /\ CreateNodes({i.v1})
  /\ UNCHANGED <<TBAATag, ToNodeMap, FromNodeMap, symbolGet, blockedMerges, stack>>

\* What loads and stores share: node2 points to node1 from now on.
MergeUnchecked(n1, n2) == mergeNode(n1, ToNodeMap[n2]) /\ UNCHANGED <<ToNodeMap, FromNodeMap>>
MergePointer(n1, n2) ==
  \/ /\ ToNodeMap[n2] # NoNode \/ FromNodeMap[n1] # NoNode
     /\ mergeNode(n1, n2)
     /\ UNCHANGED <<ToNodeMap, FromNodeMap>>
  \/ /\ ToNodeMap[n2] = NoNode
     /\ FromNodeMap[n1] = NoNode
     /\ AddEdge(n2, n1)
     /\ UNCHANGED stack
PointTo(n1, n2) ==
  \/ /\ ToNodeMap[n2] # NoNode
     /\ mergeNode(n1, ToNodeMap[n2])
     /\ UNCHANGED <<ToNodeMap, FromNodeMap>>
  \/ /\ ToNodeMap[n2] = NoNode
     /\ FromNodeMap[n1] # NoNode
     /\ mergeNode(FromNodeMap[n1], n2)
     /\ UNCHANGED <<ToNodeMap, FromNodeMap>>
  \/ /\ ToNodeMap[n2] = NoNode
     /\ FromNodeMap[n1] = NoNode
     /\ AddEdge(n2, n1)
     /\ UNCHANGED stack

TagIfUntagged(tags, n, tag) == IF tags[n] = NoTag THEN [tags EXCEPT ![n] = tag] ELSE tags

\* v1 = *v2
HandleLoad(i) ==
  LET n1 == NodeMapWith({i.v1, i.v2})[i.v1]
      n2 == NodeMapWith({i.v1, i.v2})[i.v2]
  IN  /\ i.op = "load"
      /\ Handle(i)
      /\ CreateNodes({i.v1, i.v2})
      /\ TBAATag' = TagIfUntagged(TagIfUntagged(TBAATag, n2, i.tag), n1, i.tag)
      /\ PointTo(n1, n2)
      /\ UNCHANGED <<symbolGet, blockedMerges>>

\* The tag of a function's node after a store of the function tagged tag.
FunctionTag(tags, n, tag) ==
  IF tags[n] # NoTag /\ ~mayAliasByTBAA(tags[n], tag)
  THEN [tags EXCEPT ![n] = NoTag]
  ELSE TagIfUntagged(tags, n, tag)

\* The stored value is skipped, or connected already, or pointed to.
StoreInto(v1, v2) ==
  LET n1 == NodeMapWith({v1, v2})[v1]
      n2 == NodeMapWith({v1, v2})[v2]
  IN  /\ CreateNodes({v1, v2})
      /\ \/ /\ checkNodeConnectivity(n1, n2)
            /\ UNCHANGED <<ToNodeMap, FromNodeMap, stack>>
         \/ /\ ~checkNodeConnectivity(n1, n2)
            /\ PointTo(n1, n2)
      /\ UNCHANGED <<symbolGet, blockedMerges>>

SkipStore == UNCHANGED <<graph, symbolGet, blockedMerges, stack>>

\* HandleStore(STI): *v2 = v1
HandleStoreInst(i) ==
  LET n1 == NodeMapWith({i.v1, i.v2})[i.v1]
      n2 == NodeMapWith({i.v1, i.v2})[i.v2]
      memTagged == TagIfUntagged(TBAATag, n2, i.tag)
  IN  /\ i.op = "store"
      /\ Handle(i)
      /\ \/ i.v1 \in ConstantData /\ SkipStore
         \/ /\ i.v1 \notin ConstantData
            /\ TBAATag' = IF i.v1 \in Function THEN FunctionTag(memTagged, n1, i.tag) ELSE memTagged
            /\ StoreInto(i.v1, i.v2)

\* HandleStore(vop, pop): a field of a global's initializer, which has no tag
HandleStore(i) ==
  /\ i.op = "init"
  /\ Handle(i)
  /\ \/ i.v1 \in ConstantData /\ SkipStore
     \/ i.v1 \notin ConstantData /\ StoreInto(i.v1, i.v2) /\ UNCHANGED TBAATag

\* v1 = v2, after nodes for the values of S were created by the caller
Move(v1, v2, S) ==
  LET nodes   == NodeMapWith(S \cup {v2})
      classes == ClassesWith(S \cup {v2})
      n1      == nodes[v1]
      n2      == nodes[v2]
  IN  /\ \/ /\ n1 = NoNode
            /\ NodeMap' = [nodes EXCEPT ![v1] = n2]
            /\ aliasclass' = [classes EXCEPT ![n2] = @ \cup {v1}]
            /\ UNCHANGED stack
         \/ /\ n1 # NoNode
            /\ n1 = n2 \/ checkNodeConnectivity(n1, n2)
            /\ CreateNodes(S \cup {v2})
            /\ UNCHANGED stack
         \/ /\ n1 # NoNode
            /\ n1 # n2 /\ ~checkNodeConnectivity(n1, n2)
            /\ CreateNodes(S \cup {v2})
            /\ mergeNode(n1, n2)
      /\ UNCHANGED <<TBAATag, ToNodeMap, FromNodeMap, blockedMerges>>

\* GEPs, casts, the arms of phis and selects, parameter binding, constant
\* operators: each is one HandleMove
HandleMove(i) ==
  /\ i.op = "move"
  /\ Handle(i)
  /\ Move(i.v1, i.v2, {})
  /\ UNCHANGED symbolGet

\* ret v2, for the instruction value v1
HandleReturnInst(i) ==
  /\ i.op = "ret"
  /\ Handle(i)
  /\ \/ i.v2 \in ConstantData /\ SkipStore
     \/ i.v2 \notin ConstantData /\ Move(i.v1, i.v2, {}) /\ UNCHANGED symbolGet

HandleCai(i) ==
  /\ Handle(i)
  /\ \/ /\ i.op = "call"
        /\ CreateNodes({i.cai} \cup i.args)
        /\ UNCHANGED <<TBAATag, ToNodeMap, FromNodeMap, symbolGet, blockedMerges, stack>>
     \/ /\ i.op = "copycall"
        /\ Move(i.v1, i.v2, {i.cai} \cup i.args)
        /\ UNCHANGED symbolGet
     \/ /\ i.op = "symbol_get"
        /\ Move(i.cai, i.f, {i.cai} \cup i.args)
        /\ symbolGet' = symbolGet \cup {i.f}

-----------------------------------------------------------------------------
(* mergeNode: merge n1 into n2. *)

top == stack[Len(stack)]
Pop == stack' = SubSeq(stack, 1, Len(stack) - 1)
GoOn(at) == stack' = [stack EXCEPT ![Len(stack)].at = at]

Running(at) == stack # <<>> /\ top.at = at /\ UNCHANGED <<symbolGet, done>>

MergeBlocked ==
  /\ Running("enter")
  /\ ~shouldMergeByTBAA(top.n1, top.n2)
  /\ blockedMerges' = blockedMerges + 1
  /\ Pop
  /\ UNCHANGED graph

MergeSelf ==
  /\ Running("enter")
  /\ top.n1 = top.n2
  /\ Pop
  /\ UNCHANGED <<graph, blockedMerges>>

NotCleared(n1, n2) == [aliasclass EXCEPT ![n2] = @ \cup aliasclass[n1]]
ClassesMerged(n1, n2) == [aliasclass EXCEPT ![n1] = {}, ![n2] = @ \cup aliasclass[n1]]

MergeValues ==
  LET n1 == top.n1
      n2 == top.n2
  IN  /\ Running("enter")
      /\ shouldMergeByTBAA(n1, n2)
      /\ n1 # n2
      /\ TBAATag' = TagIfUntagged(TBAATag, n2, TBAATag[n1])
      /\ NodeMap' = [v \in Value |-> IF v \in aliasclass[n1] THEN n2 ELSE NodeMap[v]]
      /\ aliasclass' = ClassesMerged(n1, n2)
      /\ GoOn("to")
      /\ UNCHANGED <<ToNodeMap, FromNodeMap, blockedMerges>>

\* The neighbour of n1 in one edge map becomes n2's, which has none.
CopiedEdge(map, n1, n2) == [map EXCEPT ![n2] = map[n1]]
MovedEdge(map, n1, n2) == [map EXCEPT ![n1] = NoNode, ![n2] = map[n1]]

ErasedAfterwards(map, n, m) == map
Erased(map, n, m) == [map EXCEPT ![n] = NoNode, ![m] = NoNode]

\* Suspend the frame until the merge of the two neighbours returns.
Recurse(at, m1, m2) ==
  stack' = Append([stack EXCEPT ![Len(stack)] = Activation(top.n1, top.n2, at, m1, m2)],
                  Activation(m1, m2, "enter", NoNode, NoNode))

MergeTo ==
  LET n1 == top.n1
      n2 == top.n2
      m1 == ToNodeMap[n1]
      m2 == ToNodeMap[n2]
  IN  /\ Running("to")
      /\ \/ /\ m1 = NoNode \/ m1 = m2
            /\ GoOn("from")
            /\ UNCHANGED <<ToNodeMap, FromNodeMap>>
         \/ /\ m1 # NoNode /\ m2 = NoNode
            /\ ToNodeMap' = MovedEdge(ToNodeMap, n1, n2)
            /\ FromNodeMap' = [FromNodeMap EXCEPT ![m1] = n2]
            /\ GoOn("from")
         \/ /\ m1 # NoNode /\ m2 # NoNode /\ m1 # m2
            /\ ToNodeMap' = Erased(ToNodeMap, n1, n2)
            /\ FromNodeMap' = Erased(FromNodeMap, m1, m2)
            /\ Recurse("toReturn", m1, m2)
      /\ UNCHANGED <<NodeMap, aliasclass, TBAATag, blockedMerges>>

NotRestored ==
  /\ Running("toReturn")
  /\ GoOn("from")
  /\ UNCHANGED <<graph, blockedMerges>>
MergeToReturn ==
  /\ Running("toReturn")
  /\ AddEdge(top.n2, top.m2)
  /\ GoOn("from")
  /\ UNCHANGED <<NodeMap, aliasclass, TBAATag, blockedMerges>>

MergeFrom ==
  LET n1 == top.n1
      n2 == top.n2
      m1 == FromNodeMap[n1]
      m2 == FromNodeMap[n2]
  IN  /\ Running("from")
      /\ \/ /\ m1 = NoNode \/ m1 = m2
            /\ Pop
            /\ UNCHANGED <<ToNodeMap, FromNodeMap>>
         \/ /\ m1 # NoNode /\ m2 = NoNode
            /\ FromNodeMap' = MovedEdge(FromNodeMap, n1, n2)
            /\ ToNodeMap' = [ToNodeMap EXCEPT ![m1] = n2]
            /\ Pop
         \/ /\ m1 # NoNode /\ m2 # NoNode /\ m1 # m2
            /\ FromNodeMap' = Erased(FromNodeMap, n1, n2)
            /\ ToNodeMap' = Erased(ToNodeMap, m1, m2)
            /\ Recurse("fromReturn", m1, m2)
      /\ UNCHANGED <<NodeMap, aliasclass, TBAATag, blockedMerges>>

MergeFromReturn ==
  /\ Running("fromReturn")
  /\ AddEdge(top.m2, top.n2)
  /\ Pop
  /\ UNCHANGED <<NodeMap, aliasclass, TBAATag, blockedMerges>>

Merge == \/ MergeBlocked \/ MergeSelf \/ MergeValues
         \/ MergeTo \/ MergeToReturn \/ MergeFrom \/ MergeFromReturn

HandleInst(i) ==
  \/ HandleAlloc(i) \/ HandleLoad(i) \/ HandleStoreInst(i) \/ HandleStore(i)
  \/ HandleMove(i) \/ HandleReturnInst(i) \/ HandleCai(i)

Next == Merge \/ \E i \in Calls : HandleInst(i)

Spec == Init /\ [][Next]_vars

-----------------------------------------------------------------------------
(* Properties. *)

Quiet == stack = <<>>
Live(n) == aliasclass[n] # {}

\* NodeMap and the classes are inverse at every step of a merge: getNode and a
\* walk over aliasclass never disagree about where a value is (mergeNode moves
\* the values one way and clears the source; HandleMove inserts in both).
Partition == \A v, n \in Value : NodeMap[v] = n <=> v \in aliasclass[n]

\* The context implements the abstract classes: every step adds values or
\* unites exactly two classes.
Classes == INSTANCE AliasClasses WITH classes <- {aliasclass[n] : n \in Value} \ {{}}
ClassesOnlyUnite == Classes!Spec

\* lvl gives the values of the program pointer levels: what a load or store
\* connects is one level apart, what a copy connects is of one level.  The handlers
\* assume none, but the edges that mergeNode has erased and will put back are out
\* of the reach of the merges in between only in a program that has them; a
\* program with linked structures has none.
Levelled(lvl) ==
  /\ lvl \in [Value -> Nat]
  /\ \A i \in Calls :
       /\ i.op = "load" => lvl[i.v2] = lvl[i.v1] + 1
       /\ i.op \in {"store", "init"} => i.v1 \in ConstantData \/ lvl[i.v2] = lvl[i.v1] + 1
       /\ i.op \in {"move", "ret", "copycall"} => lvl[i.v1] = lvl[i.v2]
       /\ i.op = "symbol_get" => lvl[i.cai] = lvl[i.f]

\* Between handlers the two edge maps are inverse in a program with levels:
\* mergeNode erases and restores both ends of every edge it moves, whether or not
\* the nested merge was blocked.
EdgeMapsAgree == Quiet => \A n, m \in Value : ToNodeMap[n] = m <=> FromNodeMap[m] = n

\* Between handlers no edge of a program with levels leads to or from a node whose
\* class was emptied: the searches over the edges reach values from every node.
EdgesJoinLiveNodes ==
  Quiet => \A n \in Value : /\ ToNodeMap[n] # NoNode => Live(n) /\ Live(ToNodeMap[n])
                            /\ FromNodeMap[n] # NoNode => Live(n) /\ Live(FromNodeMap[n])

\* In a program with levels, unless TBAA blocked a merge, the pointer of every load
\* or store handled so far still points to the class of the value loaded or stored,
\* after all the merges that followed (mergeNode keeps the edges of both nodes).
AccessesResolved ==
  Quiet /\ blockedMerges = 0 =>
    \A i \in done : i.op \in {"load", "store", "init"} /\ i.v1 \notin ConstantData
                    => ToNodeMap[NodeMap[i.v2]] = NodeMap[i.v1]

\* In a program with levels, unless TBAA blocked a merge, a copy is in the class of
\* its source, whatever was merged since: HandleMove merges nothing when its two
\* nodes are connected, and takes that to mean that they are one.
MovesUnited ==
  Quiet /\ blockedMerges = 0 => \A i \in done :
    /\ i.op \in {"move", "copycall"} \/ (i.op = "ret" /\ i.v2 \notin ConstantData)
         => NodeMap[i.v1] = NodeMap[i.v2]
    /\ i.op = "symbol_get" => NodeMap[i.cai] = NodeMap[i.f]

\* mergeNode's recursion ends, on cyclic graphs too: an activation that calls
\* itself first erased two edges, and there are no more edges than nodes.
RecursionBounded == Len(stack) <= Cardinality(Value)
=============================================================================
