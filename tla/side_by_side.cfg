\* One process with two permits, checks of one caller and challenges; and, with
\* all of these at rest, two databases of one cluster.
CONSTANTS
  p1 = p1  i1 = i1  o1 = o1  a1 = a1
  None = None
  Key <- Gates
  Limit <- GlobalTwo
  Window <- GlobalTwo
  Scope <- Words
  Nonce = {n1}
  Solving = 1
  MaxNow = 2
  Process = {p1}
  Call = {c1, c2, c3}
  ServedBy <- Served
  Caller <- OneCaller
  Offered = {"check"}
  Configurations <- Transports
  GlobalLimit = 1
  BudgetWindow = 1
  Permits = 2
  Deadline = 2
  d1 = d1
  d2 = d2
  Database <- MCDatabase
  Targets = {0, 1, 4, 9}
  OutOfBand <- MCOutOfBand
  Offended <- MCOffended
  Members = {"app_platform"}
SPECIFICATION SideBySideSpec
SYMMETRY SideBySideAlike
CONSTRAINT SideBySideBound
INVARIANTS
  TwiceAtMost RefusalEarned PermitsKept WireBounded RedeemedOnce
  RoundTrip ReachAsDocumented
PROPERTY RefusalExplained
