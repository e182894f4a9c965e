\* The reference provider behind the loop, a client three frames ahead.
SPECIFICATION FairSessionSpec
CONSTANTS
  Unset = Unset
  NonFinite = NonFinite
  Empty = Empty
  Nothing = Nothing
  h1 = h1
  h2 = h2
  Ids = {"hello", "on", "reset", "other", "read", "nowhere"}
  Hints = {0}
  Kinds = {"hello", "call", "read_signals"}
  ProviderCodes = {}
  MaxRequests = 4
  Window = 3
  InCap = 1
  OutCap = 1
  Heaters = {h1, h2}
  Full = 2
  MaxTime = 2
  Meaning <- MCMeaning
  Oversize = {"other"}
INVARIANTS
  ClientKnowsTheLevels
  EnergyIsAccountedFor
PROPERTIES
  RequestsAnswered
  OutputsGoSafe
