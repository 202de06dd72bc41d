SPECIFICATION Spec
CONSTANTS
  None = None
  CallsOf = {c1, c2}
  UsersOf = {u1, u2}
  Boss = boss
  Links = {t1, t2}
  Mux = {m1, m2}
  SlotsOf = {ch1, ch2}
  Cups = {cup1}
  Numbers = {p1}
  Otps = {x, y}
  Google = google
  Names = {n1, n2, n3}
  Cuts = {m1, m2}
  Uploads = {"up"}
  Nights = {1, 2}
  Tries = 2
  Channels = 2
  MaxClaims = 2
  MaxLikes = 3
  MaxCounts = 1
  MaxPlaces = 1
  MaxSeats = 3
  Guests = {"guest"}
  MaxColumns = 1
  Rates = {1, 3}
  MaxPays = 2
  MaxUses = 1
  MaxHours = 1
  MaxTime = 1
  Cams = 2
  MaxClips = 3
  MaxHealed = 1
  Videos = {1}
  Marks = {"m1", "m2"}
  MaxAssets = 2
  MaxLines = 3
  MaxFails = 1
  MaxNotes = 3
  PerPage = 1
  MaxTold = 2
SYMMETRY Symmetry
CONSTRAINT Telling
INVARIANTS
  TypeOK SessionsAgree CompletedStays ClaimsAgree SharingAgrees LambdasTold
     OneShort  
  ObjectsServed ExportServes CycleReports  
  FleetTellsApp MatchTold CourtsAnswer BoardsAgree
CHECK_DEADLOCK FALSE
