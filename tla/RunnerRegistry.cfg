\* Two runners that start, end, crash and start again, with every fault,
\* and a start script that records one of them without the lock.
SPECIFICATION FairRegistrySpec
CONSTANTS
  r1 = r1
  r2 = r2
  NoRecord = NoRecord
  NoLock = NoLock
  NoScript = NoScript
  Runners = {r1, r2}
  Scripted = {r1}
  Mishaps = {"crash", "open", "pid", "read", "write", "slow"}
  StaleAfter = 1
  MaxTries = 3
INVARIANTS Exclusion RecordKept
PROPERTIES IsAMap NobodyWaitsForever
