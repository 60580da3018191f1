\* Enrolment and confirmation on two sessions; a confirmed seed is replaced.
CONSTANTS
  s1 = s1  s2 = s2  s3 = s3  s4 = s4
  Request = {r1, r2}
  Session = {s1, s2}
  Password = {p1}
  Seed = {k1, k2}
  CodeSet = {c1, c2}
  NoSeed = NoSeed
  Calls = {"enroll", "confirm"}
  MaxNow = 1
  LockoutThreshold = 1
  LockoutTime = 1
  MfaThreshold = 2
  MfaLockoutBase = 1
  MfaLockoutCap = 2
SPECIFICATION Spec
PROPERTIES ConfirmedSeedKept
