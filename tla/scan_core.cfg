\* One job of two tasks, every image alike, one fault.
CONSTANTS
  j1 = j1  k1 = k1  k2 = k2
  headers = headers  tls = tls
  p1 = p1  p2 = p2  w1 = w1  w2 = w2
  scan = scan  files = files
  NoQueue = NoQueue
  Jobs = {j1}
  Tasks = {k1, k2}
  JobOf <- OneJob
  Tests = {headers, tls}
  TestOf <- TwoTests
  Platform = {p1, p2}
  Workers = {w1, w2}
  Queues = {scan}
  QueueOf <- OneQueue
  Images <- Full
  MaxFaults = 1
SPECIFICATION Spec
SYMMETRY Alike
INVARIANTS TypeOK ClosedJobSettled ResultIffCompleted MatrixWhole TimeoutEarned
  CloserPending EndAfterCommit OneEnd
PROPERTIES ClosedJobFrozen TerminalTaskFrozen OneEnginePerTask ImplementsLifecycle
