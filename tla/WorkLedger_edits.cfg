\* Three requests, one after the other or at once, with every fault.
SPECIFICATION Spec
CONSTANTS
  r1 = r1
  r2 = r2
  r3 = r3
  t1 = t1
  Requests = {r1, r2, r3}
  Tasks = {t1}
  Faults = {"crash", "write", "drop"}
INVARIANTS TypeOK LedgerSound
PROPERTY IsALog
