\* Two composers that let their users type ahead, and sessions created again.
SPECIFICATION FairSpec
CONSTANTS
  c1 = c1
  c2 = c2
  Composers = {c1, c2}
  NInstances = 2
  MaxWords = 2
  MaxRequests = 6
  Others <- NoOthers
  Hazards = {"typeahead", "recreate"}
\* The requests are bounded.
CHECK_DEADLOCK FALSE
PROPERTIES NoResubmit LinesAreSends TextGetsSubmitted
