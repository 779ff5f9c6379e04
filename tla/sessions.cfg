SPECIFICATION Spec
CONSTANTS
  t1 = t1
  t2 = t2
  c1 = c1
  c2 = c2
  c3 = c3
  Tabs = {t1, t2}
  Calls = {c1, c2, c3}
  TabOf <- MCTabOf
  MaxTokens = 3
  MaxFaults = 1
  None = None
SYMMETRY Symmetry
INVARIANTS NoStrayTokens
PROPERTIES SessionKept LogoutLasts
