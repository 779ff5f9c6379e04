SPECIFICATION FairSpec
CONSTANTS
  Channels = {c1, c2}
  Procs = {p1, p2}
  Jobs = {j1, j2}
  None = None
  AutoStart = {c2}
  AutoRestart = {c1}
  RestartMax = 1
  CountCap = 1
  Serial = TRUE
  Events = {"exit", "crash", "badSpawn"}
INVARIANTS RestartLimit StatusAgrees
PROPERTIES RecoversRunning RestartingEnds KeepsLifecycle
