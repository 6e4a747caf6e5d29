\* Two requests and crashes.
SPECIFICATION Spec
CONSTANTS
  r1 = r1
  r2 = r2
  r3 = r3
  t1 = t1
  Requests = {r1, r2}
  Tasks = {t1}
  Faults = {"crash"}
INVARIANT SurvivesRestart
