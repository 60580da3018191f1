\* One organization alone runs checks, while Redis answers.
CONSTANTS
  p1 = p1  i1 = i1  o1 = o1  a1 = a1
  None = None
  Key <- Gates
  Limit <- GlobalThree
  Window <- Two
  Scope <- Words
  Nonce = {}
  Solving = 1
  MaxNow = 2
  Process = {p1}
  Call = {c1}
  ServedBy <- Served
  Caller <- OneCaller
  Offered = {"check"}
  Configurations <- NoResolver
  GlobalLimit = 1
  BudgetWindow = 1
  Permits = 2
  Deadline = 2
SPECIFICATION SteadySpec
INVARIANT RoomForOthers
