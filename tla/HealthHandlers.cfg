\* Two configured devices and one that is live without being configured.
CONSTANTS
  Configured = {heater, pump}
  Synthetic = {control}
  None = None
SPECIFICATION Spec
INVARIANTS
  EveryDeviceOnce
  DevicesExplainProvider
  OverrideOnlyWorsens
  HealthAgreesWithWaitReady
