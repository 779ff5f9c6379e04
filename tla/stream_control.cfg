SPECIFICATION ControlFairSpec
CONSTANTS
  Channels = {c1}
  Procs = {p1, p2}
  Jobs = {j1, j2}
  None = None
  AutoStart = {}
  AutoRestart = {c1}
  RestartMax = 1
  CountCap = 1
  Serial = TRUE
  Events = {"exit", "crash", "shutdown"}
  RequestMax = 1
  InboxMax = 1
  Playlists = {{c1}}
PROPERTIES StartAnswered
