\* Each of the programs, with three sessions and up to two tasks.
SPECIFICATION FairSpec
CONSTANTS
  lead = lead
  dev = dev
  qa = qa
  t1 = t1
  t2 = t2
  unused = unused
  Agents = {lead, dev, qa}
  Lead = lead
  Tasks = {t1}
  Plan <- OneTask
  Shown <- LooksAnywhere
  Watch <- DevOrAlert
  Items = {t1, t2}
  P0 = {t2}
  Owned = {t1}
  Becomes <- AnyBecomes
  Protected = {qa}
  Owner <- OwnedByQa
  Turns <- AnyTurns
  Unused = unused
INVARIANTS TypeOK NoUndueWrites
PROPERTIES IdleIsHandled ChangesAreTold
