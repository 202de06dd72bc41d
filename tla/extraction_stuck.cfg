SPECIFICATION FairSpec
CONSTANTS
  a1 = a1
  a2 = a2
  a3 = a3
  j1 = j1
  j2 = j2
  c1 = c1
  c2 = c2
  None = None
  Assets <- OneAsset
  Jobs <- OneJob
  FirstJob = j1
  Calls <- OneCall
  MaxTries = 1
  MaxCrashes = 0
  MaxPosts = 2
  EventsLost = FALSE
PROPERTIES
  StuckEnds
CHECK_DEADLOCK FALSE
