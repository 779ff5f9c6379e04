SPECIFICATION Spec
CONSTANTS
  Requests = {r1, r2}
  Passwords = {p1, p2}
  Secrets = {s1}
  Codes = {k1}
  Resets = {t1}
  MaxFailed = 2
  None = None
SYMMETRY Symmetry
INVARIANTS PasswordKept CodesSpent FailuresCounted
PROPERTIES LockStays
