\* Two organizations, three assets over two domains, two calls at a time.
CONSTANTS
  a1 = a1  a2 = a2  b1 = b1  o1 = o1  o2 = o2  v1 = v1  v2 = v2
  None = None
  Asset = {a1, a2, b1}
  Organization = {o1, o2}
  Value = {v1, v2}
  Owner <- Owners
  ValueOf <- Values
  Call = {c1, c2}
  Secret = {t1, t2}
  Resolver = {r1, r2}
  Quorum = 2
  TTL = 1
  MaxNow = 1
SPECIFICATION Spec
SYMMETRY Alike
INVARIANTS TypeOK ProofEarned LossExplained
PROPERTIES ImplementsClaims
