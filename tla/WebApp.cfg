\* Each part of the web application, with two sessions.
SPECIFICATION FairSpec
CONSTANTS
  unused = unused
  Composers = {1}
  MaxChanges = 2
  Statuses = {"todo", "done"}
  MaxNotes = 1
  Variants = {"card", "fullscreen"}
  MaxOut = 4
  Views = {"terminals", "canvas"}
  Layouts = {"grid", "stack"}
  Ids = {"s1", "s2"}
  Filters = {"all", "active", "verification"}
  Shows <- HiddenTeam
  Unused = unused
INVARIANTS TypeOK ViewsKeepState
PROPERTIES NeverGoesBack PagesCatchUp
