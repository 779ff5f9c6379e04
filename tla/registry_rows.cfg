SPECIFICATION Spec
CONSTANTS
  Channels = {c1}
  Targets = {t1, t2}
  Requests = {r1, r2}
  None = None
  SampleTargets = {t1}
  Limits = {0}
  Statuses = {"running", "stopped"}
  OutputChoices <- MCOutputChoices
  EntryMax = 1
SYMMETRY Symmetry
INVARIANTS OutputsAsAsked StatusKept
