SPECIFICATION SetupSpec
CONSTANTS
  n1 = n1
  n2 = n2
  sp = sp
  alias = alias
  mock = mock
  Absent = Absent
  Nodes = {n1, n2, sp}
  Spaced = {sp}
  Alias = alias
  Mock = mock
  MaxAddress = 7
  Deployments <- MCDeployments
  MaxChanges = 3
  MaxClaims = 2
INVARIANTS
  HostCheckDecides
  SharedDeviceIsSeen
  CollisionsAreReal
CHECK_DEADLOCK FALSE
