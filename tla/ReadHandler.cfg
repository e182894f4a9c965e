\* Two signals, one of them in the default set; two ticks to a second.
SPECIFICATION ReadSpec
CONSTANTS
  Signals = {temperature, energy}
  Default = {temperature}
  Unknown = Unknown
  Nothing = Nothing
  TicksPerSecond = 2
  StaleAfter = 1
  MaxClock = 4
INVARIANTS
  ReadIsAllOrNothing
PROPERTY
  QualityIsHonest
