\* Each of the tools, over the terminals of an agent and of ceo, which is protected.
SPECIFICATION FairSpec
CONSTANTS
  a = a
  ceo = ceo
  o = o
  d = d
  n = n
  t = t
  unused = unused
  Agents = {a, ceo}
  Protected = {ceo}
  Operational = {o}
  Directives = {d}
  Notices = {n}
  Steady = {ceo}
  Typed <- TypedAnywhere
  Ceo = ceo
  Shown <- ShownAnywhere
  Title <- SameTitle
  Drawn <- DrawnAnywhere
  Chosen <- ToCeo
  Unused = unused
INVARIANTS TypeOK EntersSpaced ProbesTellTruth
PROPERTIES StuckGetsEnter ProbesFinish
\* The check for lost input ends, and so does a monitor that fails.
CHECK_DEADLOCK FALSE
