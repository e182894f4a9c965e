\* Every kind of request, a clock that runs and is set back, a device that comes and goes.
SPECIFICATION Spec
CONSTANTS
  Unset = Unset
  NonFinite = NonFinite
  Empty = Empty
  Malformed = Malformed
  Allowed = Allowed
  Other = Other
  DeclaredArgs <- MCDeclaredArgs
  ArgMaps <- MCArgMaps
  Deadlines <- MCDeadlines
  ProviderErrors = {"INVALID_ARGUMENT", "NOT_FOUND", "OUT_OF_RANGE",
                    "FAILED_PRECONDITION", "UNAVAILABLE"}
  MaxClock = 3
  MaxTries = 2
INVARIANTS
  TypeOK
  AnswerTellsWhatHappened
  AtMostOnce
  ActsOnConformingArguments
  RefusalsAreJust
  LateCallIsNotOk
