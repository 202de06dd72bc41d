SPECIFICATION Spec
CONSTANTS
  u1 = u1
  u2 = u2
  r1 = r1
  full = full
  shorts = shorts
  k1 = k1
  k2 = k2
  Maxima = {2}
  None = None
  Users <- OneUser
  Recordings <- OneRecording
  Items <- TwoItems
  RecordingOf <- BothOfOne
  Calls <- TwoCalls
  MaxOrders = 2
  MaxAssignments = 2
  MaxFaults = 1
SYMMETRY Symmetry
INVARIANTS
  TypeOK
  UsesConserved
  
  UndisturbedAgrees
