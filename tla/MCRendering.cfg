SPECIFICATION RenderSpec
CONSTANTS
  s1 = s1
  s2 = s2
  p1 = p1
  p2 = p2
  d1 = d1
  d2 = d2
  d3 = d3
  Nothing = Nothing
  Servers = {s1, s2}
  Providers = {p1, p2}
  Hosts = {d1, d2, d3}
  NamesOf <- MCNames
  Inputs <- MCInputs
  GroupLimit = 2
  ClientLimit = 2
INVARIANTS
  LeavesByItsExit
  OnlyPromisedLeaves
  DoorsAreApart
CHECK_DEADLOCK FALSE
