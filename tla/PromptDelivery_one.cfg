\* One composer among other clients, with every failure.
SPECIFICATION Spec
CONSTANTS
  c1 = c1
  c2 = c2
  Composers = {c1}
  NInstances = 2
  MaxWords = 2
  MaxRequests = 3
  Others <- OneWrite
  Hazards = {"timeout", "reload", "recreate", "exit"}
\* The requests are bounded.
CHECK_DEADLOCK FALSE
INVARIANTS TypeOK TextBeforeSubmit TypedNotLost
