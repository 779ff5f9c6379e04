SPECIFICATION FairSpec
CONSTANTS
  Channels = {c1}
  Procs = {p1, p2}
  Jobs = {j1, j2}
  None = None
  AutoStart = {}
  AutoRestart = {c1}
  RestartMax = 2
  CountCap = 2
  Serial = TRUE
  Events = {"exit", "stall", "badBuild", "remove"}
PROPERTIES StopCompletes
