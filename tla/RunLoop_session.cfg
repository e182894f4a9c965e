\* Every kind of frame, a client that pipelines, every way to fail.
SPECIFICATION Spec
CONSTANTS
  Nothing = Nothing
  Ids = {1, 2}
  Hints = {0, 9}
  Kinds = {"hello", "hello_other_version", "wait_ready", "read_signals", "unset",
           "bad_length", "unparseable"}
  ProviderCodes = {"UNAVAILABLE"}
  MaxRequests = 3
  Window = 2
  InCap = 1
  OutCap = 1
INVARIANTS
  TypeOK
  AnswersMatchRequests
  NothingSkipped
  StartupOnFirstRequest
  ReadyHookAfterStartup
  ExitCodeExplains
PROPERTIES
  ShutdownIsLast
  ImplementsSession
