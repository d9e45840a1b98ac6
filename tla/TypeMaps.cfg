SPECIFICATION Spec
CONSTANTS
  Module = {"m1", "m2"}
  Value <- Values
  Function <- Functions
  ICall = {"i1", "i2", "i3", "i4", "i5", "i6", "i7"}
  in <- InOf
  kind <- KindOf
  operands <- OperandsOf
  cell <- CellOf
  composite = {"gT"}
  Cell = {"A.cb", "B.cb", "U.cb", "table", "slot", "hook"}
  Layer = {"A.cb", "B.cb", "U.cb"}
  Union = {"U.cb"}
  defs <- DefsOf
  sig <- SigOf
  called <- Called
  Call = {"i1", "i2", "i3", "i4", "i5", "i6", "i7", "d1", "d2", "d3", "d4", "d5", "d6", "d7", "d8", "d9"}
  callees <- Direct
  arguments <- Arguments
  parent <- ParentOf
  index <- IndexOf
  returned <- ReturnedBy
  MaxRounds = 2
  Programs <- SmallPrograms
INVARIANT TypeOK
INVARIANT CallsCovered
INVARIANT CallsSeeAllModules
INVARIANT TracesCover
CHECK_DEADLOCK FALSE
