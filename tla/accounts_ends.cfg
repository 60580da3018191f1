\* Calls that wait for each other's sessions and factor while a lockout runs out; liveness.
CONSTANTS
  s1 = s1  s2 = s2  s3 = s3  s4 = s4
  Request = {r1, r2}
  Session = {s1, s2, s3}
  Password = {p1}
  Seed = {k1}
  CodeSet = {c1}
  NoSeed = NoSeed
  Calls = {"verify", "disable", "change_password"}
  MaxNow = 2
  LockoutThreshold = 1
  LockoutTime = 1
  MfaThreshold = 1
  MfaLockoutBase = 1
  MfaLockoutCap = 2
SPECIFICATION EndsSpec
PROPERTIES RequestEnds LockoutServed
