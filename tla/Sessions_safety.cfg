\* Two handlers at work at once, two client ids and one standard session.
SPECIFICATION Spec
CONSTANTS
  a = a
  b = b
  g = g
  i1 = i1
  i2 = i2
  i3 = i3
  r1 = r1
  r2 = r2
  NoId = NoId
  NoInst = NoInst
  MaxActive = 1
  Ids = {a, b, g}
  GuardSeq <- GuardOne
  Reqs = {r1, r2}
  Instances = {i1, i2, i3}
SYMMETRY Symmetry
INVARIANTS ExitReportHasCause NoGhostActive OnePlacePerInstance LimitOvershootBound
PROPERTY StoppedIsFinal
