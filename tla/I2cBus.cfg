\* Two threads and the health task on one decorated bus; and one thread under
\* every fault mode, with empty and longer buffers.
SPECIFICATION Spec
CONSTANTS
  None = None
  t1 = t1
  t2 = t2
  Buses <- MCBuses
  Addresses = {a1}
  retry_count = 1
  Timeout = 1
  U8 = 4
  U32 = 16
  ULong = 32
SYMMETRY ThreadSymmetry
INVARIANTS
  CountersMatchTheWire
  SnapshotIsPlausible
  FaultsOnSchedule
  RetryBudgetKept
