SPECIFICATION Spec
CONSTANTS
  None = None
  i1 = i1
  i2 = i2
  e1 = e1
  e2 = e2
  g1 = g1
  ip1 = ip1
  ip2 = ip2
  r1 = r1
  r2 = r2
  Isps <- OneIsp
  Exits <- OneExit
  Gateways <- OneGateway
  IPs <- TwoIPs
  Requests <- OneRequest
  IspOf <- FirstIsp
  GatewayOf <- SameGateway
  HomeOf <- FirstHome
  Deployed <- Nothing
  MayExpire = FALSE
  MayRestart = FALSE
  MaxFaults = 0
  MaxSecrets = 2
PROPERTIES
  OtherAddressRefused
CHECK_DEADLOCK FALSE
