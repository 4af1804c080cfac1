SPECIFICATION Spec
CONSTANTS
  None = None
  r1 = r1  r2 = r2  k1 = k1  k2 = k2  p1 = p1  p2 = p2
  Emails = {ann}
  Passwords = {p1, p2}
  Requests = {r1, r2}
  Tokens = {k1, k2}
  MaxAttempts = 2
  Lockout = 1
  TTL = 1
  MaxClock = 2
SYMMETRY Symmetry
INVARIANT TypeOK
INVARIANT LockIsAudited
INVARIANT ResetRetiresTokens
INVARIANT RegisteredOnce
PROPERTY StaleLoginKeepsLock
PROPERTY PasswordChangeSpendsToken
