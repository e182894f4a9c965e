\* docs/writing-a-provider.md:127 against read_frame: a failing read of stdin.
SPECIFICATION Spec
CONSTANTS
  Nothing = Nothing
  Ids = {1}
  Hints = {0}
  Kinds = {"hello", "call"}
  ProviderCodes = {}
  MaxRequests = 2
  Window = 1
  InCap = 1
  OutCap = 1
INVARIANT
  CleanExitMeansEof
