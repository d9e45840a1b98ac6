CONSTANTS
  Thread = {t1, t2}
  Nobody = Nobody
  None = None
  File = {"m1", "m2", "m3"}
  Function <- Functions
  module <- ModuleOf
  name <- NameOf
  type <- TypeOf
  place <- PlaceOf
  source <- SourceOf
  hasBody <- Bodies
  external <- Externals
  addressTaken <- Taken
  Call <- Calls
  caller <- CallerOf
  callPlace <- CallPlace
  callee <- CalleeOf
  callType <- CallTypeOf
  str_hash <- Hashes
  Width = 8
  batch_size = 2
  MaxFailures = 1
  MaxRuns = 2
SPECIFICATION Spec
INVARIANT TypeOK
INVARIANT LoadedOnce
INVARIANT SitesResolvedOnce
INVARIANT CopiesAgree
INVARIANT NamesLeadToDefinitions
INVARIANT Reported
INVARIANT TablesOfOneRun
PROPERTY Terminates
CHECK_DEADLOCK FALSE
