\* Liveness while images differ: with the reaper, lost messages and restarts, and
\* by the children alone.
CONSTANTS
  j1 = j1  k1 = k1  k2 = k2
  headers = headers  tls = tls
  p1 = p1  p2 = p2  w1 = w1  w2 = w2
  scan = scan  files = files
  NoQueue = NoQueue
  Jobs = {j1}
  Tasks = {k1, k2}
  JobOf <- OneJob
  Tests = {headers, tls}
  TestOf <- TwoTests
  Platform = {p1}
  Workers = {w1}
  Queues = {scan}
  QueueOf <- OneQueue
  Images <- Rolling
  MaxFaults = 2
SPECIFICATION FairSpec
PROPERTIES JobCloses RunningJobCloses
