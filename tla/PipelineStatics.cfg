CONSTANTS
  Thread = {t1, t2}
  Nobody = Nobody
  None = None
  File = {"m1", "m2", "m3"}
  Function <- WithStatics
  module <- ModuleOf
  name <- NameOf
  type <- TypeOf
  place <- PlaceOf
  source <- SourceOf
  hasBody <- Bodies
  external <- Externals
  addressTaken <- Taken
  Call <- CallsOfStatics
  caller <- CallerOf
  callPlace <- CallPlace
  callee <- CalleeOf
  callType <- CallTypeOf
  str_hash <- Hashes
  Width = 8
  batch_size = 2
  MaxFailures = 0
  MaxRuns = 1
SPECIFICATION Spec
CHECK_DEADLOCK FALSE
INVARIANT CalleeIsCalled
