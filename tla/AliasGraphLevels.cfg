SPECIFICATION Spec
CONSTANTS
  a = a
  b = b
  p = p
  q = q
  g = g
  x = x
  f = f
  k = k
  c = c
  t1 = t1
  t2 = t2
  NoNode = NoNode
  NoTag = NoTag
  Value = {a, b, p, q, g, x, f}
  Function = {f}
  ConstantData = {}
  Tag = {t1, t2}
  MayAlias <- Disjoint
  Calls <- Levels
  MaxCalls = 7
CONSTRAINT Bound
CHECK_DEADLOCK FALSE
INVARIANT EdgeMapsAgree
INVARIANT EdgesJoinLiveNodes
INVARIANT AccessesResolved
INVARIANT MovesUnited
