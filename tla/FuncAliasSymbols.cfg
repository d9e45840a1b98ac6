SPECIFICATION Spec
CONSTANTS
  def = def
  decl = decl
  other = other
  Nobody = Nobody
  Thread = {t1, t2}
  Function = {def, decl, other}
  AddressTaken = {def, decl, other}
  ICall = {i1}
  Name = {def}
  Id <- Ids
  FoundBefore = {def}
  nameOf <- OneName
  guidOf <- ExternalIds
  Defs <- StaticDefs
  Targets <- AllTargets
  Findings <- SymbolFindings
INVARIANT PrunedJustified
INVARIANT NoUseForgotten
CHECK_DEADLOCK FALSE
