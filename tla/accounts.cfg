\* Two requests at a time on an account, four sessions in all, two live together.
CONSTANTS
  s1 = s1  s2 = s2  s3 = s3  s4 = s4
  Request = {r1, r2}
  Session = {s1, s2, s3, s4}
  Password = {p1}
  Seed = {k1}
  CodeSet = {c1, c2}
  NoSeed = NoSeed
  Calls = {"logout", "change_password", "enroll", "confirm", "verify", "regenerate", "disable"}
  MaxNow = 1
  LockoutThreshold = 1
  LockoutTime = 1
  MfaThreshold = 1
  MfaLockoutBase = 1
  MfaLockoutCap = 2
SPECIFICATION Spec
CONSTRAINT Bounded
SYMMETRY Alike
INVARIANTS TypeOK AssuranceNeedsFactor CodeSpentOnce
PROPERTIES RevokedForever ImplementsSecondFactor
