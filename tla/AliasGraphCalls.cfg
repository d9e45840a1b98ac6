SPECIFICATION Spec
CONSTANTS
  a = a
  b = b
  p = p
  q = q
  g = g
  x = x
  f = f
  k = k
  c = c
  t1 = t1
  t2 = t2
  NoNode = NoNode
  NoTag = NoTag
  Value = {a, p, q, x, f, k, c}
  Function = {f}
  ConstantData = {k}
  Tag = {t1, t2}
  MayAlias <- Disjoint
  Calls <- Calling
  MaxCalls = 6
CONSTRAINT Bound
CHECK_DEADLOCK FALSE
INVARIANT TypeOK
INVARIANT Partition
PROPERTY ClassesOnlyUnite
INVARIANT RecursionBounded
