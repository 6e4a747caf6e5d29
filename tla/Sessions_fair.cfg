\* Two handlers, one client id and one standard session, with fairness.
SPECIFICATION FairSpec
CONSTANTS
  a = a
  b = b
  g = g
  i1 = i1
  i2 = i2
  i3 = i3
  r1 = r1
  r2 = r2
  NoId = NoId
  NoInst = NoInst
  MaxActive = 2
  Ids = {a, g}
  GuardSeq <- GuardOne
  Reqs = {r1, r2}
  Instances = {i1, i2}
PROPERTIES OneOwner GuardFillsEmptyPool DeathIsNoticed
