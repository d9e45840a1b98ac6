--------------------------- MODULE AliasGraphTBAA ---------------------------
(***************************************************************************)
(* The same handler calls made on two contexts: one compiled with          *)
(* ENABLE_TBAA_ALIAS_REFINEMENT and one without it, for which every pair   *)
(* of tags may alias.  What the refinement changes is the difference.      *)
(***************************************************************************)
EXTENDS Naturals, Sequences

CONSTANTS Value, Function, ConstantData, Tag, MayAlias, NoNode, NoTag, Calls

VARIABLES
  done,
  tNodeMap, tAliasclass, tTBAATag, tTo, tFrom, tSymbolGet, tBlocked, tStack,
  pNodeMap, pAliasclass, pTBAATag, pTo, pFrom, pSymbolGet, pBlocked, pStack

tvars == <<tNodeMap, tAliasclass, tTBAATag, tTo, tFrom, tSymbolGet, tBlocked, tStack>>
pvars == <<pNodeMap, pAliasclass, pTBAATag, pTo, pFrom, pSymbolGet, pBlocked, pStack>>
vars == <<done, tvars, pvars>>

Refined == INSTANCE AliasGraph WITH
  NodeMap <- tNodeMap, aliasclass <- tAliasclass, TBAATag <- tTBAATag,
  ToNodeMap <- tTo, FromNodeMap <- tFrom, symbolGet <- tSymbolGet,
  blockedMerges <- tBlocked, stack <- tStack

Plain == INSTANCE AliasGraph WITH
  MayAlias <- Tag \X Tag,
  NodeMap <- pNodeMap, aliasclass <- pAliasclass, TBAATag <- pTBAATag,
  ToNodeMap <- pTo, FromNodeMap <- pFrom, symbolGet <- pSymbolGet,
  blockedMerges <- pBlocked, stack <- pStack

ASSUME ContextAssumption ==
  /\ Function \subseteq Value /\ ConstantData \subseteq Value /\ NoNode \notin Value
  /\ NoTag \notin Tag /\ MayAlias \subseteq Tag \X Tag
  /\ Calls \subseteq Refined!Call

Init == Refined!Init /\ Plain!Init

\* A handler call is made on both; each then finishes its merges, in either order.
HandleInst(i) == Refined!HandleInst(i) /\ Plain!HandleInst(i)

Next == \/ \E i \in Calls : HandleInst(i)
        \/ Plain!Merge /\ UNCHANGED tvars
        \/ pStack = <<>> /\ Refined!Merge /\ UNCHANGED pvars

Spec == Init /\ [][Next]_vars

-----------------------------------------------------------------------------
Quiet == tStack = <<>> /\ pStack = <<>>

\* Config.h: the refinement is a filter over an unchanged analysis, so in a program
\* with levels it may remove aliases and never adds one.
RefinementAddsNoAlias ==
  Quiet => \A v, w \in Value :
    tNodeMap[v] # NoNode /\ tNodeMap[v] = tNodeMap[w] => pNodeMap[v] = pNodeMap[w]
=============================================================================
