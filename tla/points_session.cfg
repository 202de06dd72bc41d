SPECIFICATION Spec
CONSTANTS
  u1 = u1
  u2 = u2
  s1 = s1
  s2 = s2
  c1 = c1
  c2 = c2
  None = None
  Users <- OneUser
  Sessions <- OneSession
  Owner <- OfOneUser
  Calls <- TwoCalls
  MaxWorth = 1
  MaxDay = 1
  MaxStats = 2
SYMMETRY CallSymmetry
INVARIANTS
  OneAwardPerSession
