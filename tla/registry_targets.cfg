SPECIFICATION Spec
CONSTANTS
  Channels = {c1, c2}
  Targets = {t1, t2}
  Requests = {r1, r2}
  None = None
  SampleTargets = {t1}
  Limits = {0, 1}
  Statuses = {}
  OutputChoices = {{"udp"}}
  EntryMax = 2
SYMMETRY Symmetry
INVARIANTS TargetsDistinct
PROPERTIES LimitKept
