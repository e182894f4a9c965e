\* writing-a-provider.md:37 against handle_call: a device away at capabilities().
SPECIFICATION Spec
CONSTANTS
  Unset = Unset
  NonFinite = NonFinite
  Empty = Empty
  Malformed = Malformed
  Allowed = Allowed
  Other = Other
  DeclaredArgs <- MCDeclaredArgs
  ArgMaps <- MCArgMaps
  Deadlines <- MCDeadlines
  ProviderErrors = {"INVALID_ARGUMENT", "NOT_FOUND", "OUT_OF_RANGE",
                    "FAILED_PRECONDITION", "UNAVAILABLE"}
  MaxClock = 3
  MaxTries = 2
INVARIANT
  CallSeesMatchingArguments
