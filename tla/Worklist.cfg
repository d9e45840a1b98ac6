SPECIFICATION Spec
CONSTANTS
  None = "none"
  Value <- Values
  op <- Ops
  args <- Args
  called <- CalledBy
  parent <- Parents
  params <- Params
  guid <- Guids
  flags <- Flags
  symbols <- Symbols
  Callees <- Targeted
  Callers <- CallsOf
  Code <- AllCode
  Resolved <- AllResolved
  ResolvedBefore <- AllBefore
  MaxPath = 16
  Starts = {"i1", "i2", "i3", "i4", "i5", "i6", "i7", "i8", "i9", "i10", "i11", "foo", "bar", "baz", "qux", "i14", "late", "i15", "plug"}
  Limits = {1, 4, 30}
INVARIANT TypeOK
INVARIANT FlowFound
INVARIANT NothingLeftOut
PROPERTY Terminates
CHECK_DEADLOCK FALSE
