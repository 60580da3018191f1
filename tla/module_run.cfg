\* One run of either module: two progress lines, two kinds of engine error.
CONSTANTS
  Lines <- TwoLines
  Errors = {"boom", "overran its lease"}
  PipeRoom = 1
  Alphabet <- Words
  Modules = {"dnssec", "pqc"}
  DnssecReports <- ChainReports
  PqcReports <- ProbeReports
  Options <- AnyOption
  DefaultBudget = 3
  MaxBudget = 6
  MaxPort = 3
SPECIFICATION FairSpec
INVARIANTS TypeOK OutcomeEarned ChildGone RowsOrderFree GapsReported VerdictEarned
PROPERTIES RunEnds
