SPECIFICATION Spec
CONSTANTS
  s1 = s1
  s2 = s2
  l1 = l1
  l2 = l2
  h1 = h1
  h2 = h2
  k1 = k1
  k2 = k2
  None = None
  Sources = {s1, s2}
  Threads = {l1, l2}
  Hashes = {h1, h2}
  Tokens = {k1, k2}
  Window = 2
  SourceLimit = 2
  GlobalLimit = 3
  SessionLife = 2
  FormLife = 1
INVARIANTS
  SessionIsCurrent
  LimitHolds
PROPERTIES
  LockoutEnds
CHECK_DEADLOCK FALSE
