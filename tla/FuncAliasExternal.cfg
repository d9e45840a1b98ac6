SPECIFICATION FairSpec
CONSTANTS
  def = def
  decl = decl
  other = other
  Nobody = Nobody
  Thread = {t1, t2}
  Function = {def, decl, other}
  AddressTaken = {def, decl, other}
  ICall = {i1, i2}
  Name = {def, other}
  Id <- Ids
  FoundBefore = {}
  nameOf <- ExternalNames
  guidOf <- ExternalIds
  Defs <- ExternalDefs
  Targets <- AllTargets
  Findings <- PlainFindings
INVARIANT TypeOK
INVARIANT ScheduleIndependent
PROPERTY Finishes
CHECK_DEADLOCK FALSE
