SPECIFICATION Spec
CONSTANTS
  e1 = e1
  e2 = e2
  e3 = e3
  gwA = gwA
  gwB = gwB
  g1 = g1
  g2 = g2
  a1 = a1
  a2 = a2
  t1 = t1
  t2 = t2
  None = None
  Exits = {e1, e2, e3}
  Direct = {e2}
  GatewayOf <- MCGatewayOf
  FirstExits = {e1, e2}
  Groups = {g1}
  Actors = {a1, a2}
  Tokens = {t1, t2}
  SoftFails = {e1}
  Watched = {e1, e2}
INVARIANTS
  ServedIsVerified
  ReadyIsRouted
  AiIsAtHome
PROPERTIES
  ConfirmedAsShown
SYMMETRY MCSymmetry
CHECK_DEADLOCK FALSE
