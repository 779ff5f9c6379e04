SPECIFICATION Spec
CONSTANTS
  Channels = {c1}
  Procs = {p1, p2}
  Jobs = {j1, j2}
  None = None
  AutoStart = {}
  AutoRestart = {}
  RestartMax = 0
  CountCap = 0
  Serial = FALSE
  Events = {}
INVARIANTS OneProcessPerChannel
