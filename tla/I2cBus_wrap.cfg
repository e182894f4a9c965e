\* fault_injecting_i2c_bus.hpp:25 against pre_op: a drop_for meant to last.
SPECIFICATION Spec
CONSTANTS
  None = None
  t1 = t1
  t2 = t2
  Buses <- LastingDrop
  Addresses = {a1}
  retry_count = 1
  Timeout = 1
  U8 = 4
  U32 = 16
  ULong = 32
INVARIANT
  NextOpsDrop
