SPECIFICATION Spec
CONSTANTS
  Requests <- MCRequests
  Baud = 115200
INVARIANTS
  ClockTypeOK
  HardwareIsSafe
  RunsOnLockedPll
  CacheIsTrue
