\* The overrides of EchoDriver.
CONSTANTS
  Overrides = {"open", "release", "read", "write"}
SPECIFICATION Spec
INVARIANTS
  CallsReachMembers
