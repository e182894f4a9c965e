\* Bytes of two values, so that a header's 4 bytes are 4 bits; cap 2.
SPECIFICATION FairSpec
CONSTANTS
  Base = 2
  max_len = 2
  Payloads <- MCPayloads
  Announced = {0, 1, 2, 3, 8}
  Nothing = Nothing
  PipeCap = 3
  MaxFrames = 3
INVARIANTS
  EndIsClassified
  CapsAgree
PROPERTIES
  ImplementsChannel
  WrittenArrives
