SPECIFICATION FairSpec
CONSTANTS
  r1 = r1
  h1 = h1
  h2 = h2
  c1 = c1
  c2 = c2
  None = None
  Recordings <- OneRecording
  Highlights <- OneHighlight
  RecOf <- OneRecOf
  S3Highlights = {}
  Consumers <- TwoConsumers
  MaxClips = 2
  MaxMessages = 1
  MaxFaults = 1
\* Everything is done when every highlight is settled.
CHECK_DEADLOCK FALSE
PROPERTIES
  WaitingEnds
