SPECIFICATION FairSpec
CONSTANTS
  c1 = c1
  c2 = c2
  c3 = c3
  f = f
  g = g
  A = A
  B = B
  C = C
  s = s
  t = t
  ICall = {c1, c2, c3}
  Function = {f, g}
  Layer = {A, B, C}
  Type = {s, t}
  Layered = {c1}
  Layers <- LayersOf
  Known <- Maps0
  OfType <- TypeTargets
  VirtualTargets <- Overriders
  Threshold = 1
INVARIANT RoundsBounded
INVARIANT ResultFollowed
PROPERTY Terminates
CHECK_DEADLOCK FALSE
