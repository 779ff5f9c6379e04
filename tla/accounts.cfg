SPECIFICATION Spec
CONSTANTS
  Users = {u1, u2}
  Emails = {e1, e2}
  EnvEmail = e1
  Custom = {c1}
  Requests = {r1, r2}
  None = None
SYMMETRY Symmetry
INVARIANTS EditsKept
PROPERTIES SuperRemains InstalledOnce
