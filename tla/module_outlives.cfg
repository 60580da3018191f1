\* A helper the engine started outlives the run.
CONSTANTS
  Lines <- TwoLines
  Errors = {"boom", "overran its lease"}
  PipeRoom = 1
  Alphabet <- Words
  Modules = {"dnssec", "pqc"}
  DnssecReports <- ChainReports
  PqcReports <- ProbeReports
  Options <- AnyOption
  DefaultBudget = 3
  MaxBudget = 6
  MaxPort = 3
SPECIFICATION Spec
INVARIANTS NothingOutlives
