SPECIFICATION Spec
CONSTANTS
  v1 = v1
  v2 = v2
  p1 = p1
  p2 = p2
  r1 = r1
  r2 = r2
  Videos = {v1, v2}
  Paths = {p1, p2}
  Channels = {c1}
  Requests = {r1, r2}
  Lists <- MCLists
  Modes = {"random", "single_loop"}
  RequestMax = 4
  FaultMax = 1
  None = None
SYMMETRY Symmetry
INVARIANTS FilesBacked ItemsAsSaved PlaysSaved
