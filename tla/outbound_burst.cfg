\* Two checks at once of one process, while Redis answers and nothing fails.
CONSTANTS
  p1 = p1  i1 = i1  o1 = o1  a1 = a1
  None = None
  Key <- Gates
  Limit <- Two
  Window <- Three
  Scope <- Words
  Nonce = {}
  Solving = 1
  MaxNow = 3
  Process = {p1}
  Call = {c1, c2}
  ServedBy <- Served
  Caller <- OneCaller
  Offered = {"check"}
  Configurations <- Transports
  GlobalLimit = 2
  BudgetWindow = 3
  Permits = 2
  Deadline = 2
SPECIFICATION SteadySpec
SYMMETRY Alike
INVARIANT WithinBudget
