SPECIFICATION Spec
CONSTANTS
  a1 = a1
  a2 = a2
  a3 = a3
  j1 = j1
  j2 = j2
  c1 = c1
  c2 = c2
  None = None
  Assets <- TwoAssets
  Jobs <- OneJob
  FirstJob = j1
  Calls <- TwoCalls
  MaxTries = 1
  MaxCrashes = 1
  MaxPosts = 2
  EventsLost = TRUE
SYMMETRY Symmetry
INVARIANTS
  TypeOK
  StaysWatchable
  RetriesCounted
CHECK_DEADLOCK FALSE
