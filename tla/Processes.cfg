SPECIFICATION ProcessSpec
CONSTANTS
  Pages = {g1}
  Phones = {h1}
  Resumes = {d1}
  PageForms <- ThreeForms
  KeyOps = {o1, o2, o3}
  KeyIds = {k1}
  MaxCrashes = 1
  Unset = Unset
  Nobody = Nobody
  People = {p1}
  Boots = {b1, b2, b3}
  InviteIds = {i1}
  Removals = {r1}
  Team = Team
  Boss = Boss
  MaxFailures = 1
  Nothing = Nothing
  Members = {m1, m2}
  Handsets = {h1}
  Delegations = {v1}
  Registrations = {s1, s2}
  RolesGiven = {"user", "none"}
  MaxRollbacks = 1
  Unheld = Unheld
  NoPerson = NoPerson
  NoRow = NoRow
  Conns = {c1, c2}
  Nested = {n1, n2}
  Plain = {q1}
  Idle = Idle
  OriginKinds = {"mastra", "langgraph", "temporal", "http", "hermes", "kanban", "openshell"}
  Items = {a1, a2}
  Overrides <- AskedAnswers
  MaxTries = 2
  Retried = {a1}
  MaxLives = 2
  MaxAttempts = 2
  MaxRestarts = 1
  Restarting = {"langgraph", "hermes", "openshell"}
  MaxRotations = 1
  None = None
CHECK_DEADLOCK FALSE
INVARIANTS ProcessTypeOK ActsOnItsOwnYes ActsOnce
PROPERTIES RevokedKeysRefused SecretStays OnlyRacesUndo EveryoneGetsTeam ClosedItemStays PushReachesItsPerson RequestsServed TakenEndsRun
