SPECIFICATION Spec
CONSTANTS
  r1 = r1
  c1 = c1
  i1 = i1
  p1 = p1
  s1 = s1
  t1 = t1
  u1 = u1
  o1 = o1
  r2 = r2
  c2 = c2
  i2 = i2
  s2 = s2
  NoNode = NoNode
  MaxOffset = 9
  Node = {r1, c1, i1, p1, o1, s1, r2, c2, i2, s2}
  Worlds <- TwoModules
INVARIANT OverlapNeverDisjoint
CHECK_DEADLOCK FALSE
