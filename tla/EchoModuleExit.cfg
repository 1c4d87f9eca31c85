\* Unloading against the documented life cycle of the device classes.
CONSTANTS
  MaxLoads = 1
  MaxOpens = 1
SPECIFICATION Spec
CHECK_DEADLOCK FALSE
INVARIANTS
  ExitUnregisters
