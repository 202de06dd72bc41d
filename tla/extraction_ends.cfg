SPECIFICATION FairSpec
CONSTANTS
  a1 = a1
  a2 = a2
  a3 = a3
  j1 = j1
  j2 = j2
  c1 = c1
  c2 = c2
  None = None
  Assets <- OneAsset
  Jobs <- TwoJobs
  FirstJob = j1
  Calls <- OneCall
  MaxTries = 1
  MaxCrashes = 1
  MaxPosts = 1
  EventsLost = FALSE
PROPERTIES
  ExtractionEnds
CHECK_DEADLOCK FALSE
